---- MODULE Spec2Model ----
(***************************************************************************)
(* Repository (src/services/repository.py; the same logic is in            *)
(* src/database/reddit_repository.py): the cache / synchronisation layer   *)
(* between the PullPush data source                                        *)
(* (src/data_providers/pushpull_provider.py) and the record store          *)
(* (src/database/reddit_cache.py).                                         *)
(*                                                                         *)
(* Spec: a call of get_user_contributions or get_thread is one action,     *)
(* made by a repository constructed with config['use_cache'] = use_cache   *)
(* on the shared store; get_thread_raises is the call in which a request   *)
(* of the API raises.  The record `last` keeps what the call read,         *)
(* fetched, wrote and returned, until the platform's content changes       *)
(* again.  The tables are the sets of the ids they hold.                   *)
(*                                                                         *)
(* SpecIngest: the calls of RedditCache.add_submissions and add_comments   *)
(* on tables that are lists of rows with their content.                    *)
(*                                                                         *)
(* SpecCallers: two callers in get_thread at the same time, statement by   *)
(* statement, with requests that fail and callers that are stopped.        *)
(*                                                                         *)
(* SpecGrowing: calls in DEFAULT mode while the platform only grows, with  *)
(* a comment that has the created_utc of another.                          *)
(*                                                                         *)
(* SpecTree: order_comments (src/rag/tree.py) on the lists of comments.    *)
(***************************************************************************)
EXTENDS Integers, Sequences, FiniteSets, TLC

\* ------------------------------------------------------------------ bounds
\* pushpull_config['batch_size']: the page size asked of the API
BatchSize == 2

\* The longest list of dicts handed to add_submissions / add_comments
MaxBatch == 2

\* ---------------------------------------------------------------- universe
\* Python's None, and an optional value that is set
None == <<>>
Some(x) == <<x>>

\* The submissions and comments that exist on the platform.  Ids and
\* timestamps follow test_full_bug_scenario_with_mocks: a reply chain
\* c1 <- c2 <- c3 in one thread, written by different users.  c4 is a
\* comment its author wrote in the same second as c3.  c5 declares another
\* thread (link_id t3_T2), and the API answers it for T1.
SubmissionData ==
  [ T1 |-> [author |-> "bob", created_utc |-> 1] ]


CommentData ==
  [ c1 |-> [link_id |-> "T1", parent_id |-> "T1", author |-> "alice", created_utc |-> 1],
    c2 |-> [link_id |-> "T1", parent_id |-> "c1", author |-> "bob",   created_utc |-> 2],
    c3 |-> [link_id |-> "T1", parent_id |-> "c2", author |-> "alice", created_utc |-> 3],
    c4 |-> [link_id |-> "T1", parent_id |-> "T1", author |-> "alice", created_utc |-> 3],
    c5 |-> [link_id |-> "T2", parent_id |-> "T2", author |-> "bob",   created_utc |-> 4] ]

SubmissionIds == DOMAIN SubmissionData
\* The comments of the reply chain, and those that share a timestamp
CommentIds == {"c1", "c2", "c3"}
SameSecondIds == {"c4"}
\* The comments the API delivers for a thread they do not declare
MisfiledIds == {"c5"}
Usernames == {"alice", "bob"}

\* class CacheConfig(Enum)
CacheConfig == {"DEFAULT", "NO_CACHE", "CACHE_ONLY", "FULL_SAVE"}

\* created_utc of a Submission or Comment object
created_utc(id) ==
  IF id \in SubmissionIds THEN SubmissionData[id].created_utc
  ELSE CommentData[id].created_utc

VARIABLES
  src_submissions,      \* ids of the submissions the PullPush API holds
  src_comments,         \* ids of the comments the PullPush API holds
  submissions,          \* table submissions: stored ids
  comments,             \* table comments: stored ids
  user_cache_status,    \* table user_contribution_cache_status: username -> row
  thread_cache_status,  \* table thread_cache_status: submission_id -> row
  last,                 \* the last call of the repository
  submission_rows,      \* table submissions, row by row: <<[id, raw_json], ...>>
  comment_rows,         \* table comments, row by row
  written,              \* id -> the raw_json written first; was another written later
  calls,                \* caller -> the get_thread call it is in, and where
  flag_fetch,           \* submission_id -> the comments of the full fetch that
                        \* set is_history_complete
  tree,                 \* the last call of order_comments: its input and result
  pager                 \* one stream_* generator: what the API holds for it,
                        \* its params["before"] and the items it has yielded

vars == <<src_submissions, src_comments, submissions, comments,
          user_cache_status, thread_cache_status, last,
          submission_rows, comment_rows, written, calls, flag_fetch, tree, pager>>

\* The tables with the content of their rows, as RedditCache writes them
row_tables == <<submission_rows, comment_rows, written>>

\* What the calls of the repository and of the store, as single actions,
\* leave alone
in_progress == <<calls, flag_fetch, tree, pager>>

store == <<submissions, comments, user_cache_status, thread_cache_status>>
source == <<src_submissions, src_comments>>

\* ------------------------------------------------------------ PullPush API
\* The link_id for which the API answers a comment: the one the comment
\* declares, but for the misfiled ones
AnsweredFor(c) ==
  IF c \in MisfiledIds THEN "T1" ELSE CommentData[c].link_id

RECURSIVE SortDesc(_)
\* The ids of S, newest first (sort=desc, sort_type=created_utc).
SortDesc(S) ==
  IF S = {} THEN <<>>
  ELSE LET m == CHOOSE x \in S : \A y \in S : created_utc(x) >= created_utc(y)
       IN <<m>> \o SortDesc(S \ {m})

\* The first n elements of a sequence
Take(s, n) == SubSeq(s, 1, IF n < Len(s) THEN n ELSE Len(s))

\* api_request(endpoint, params).get('data', []): at most `size` of the
\* matching items, newest first; `before` (when given) is an inclusive upper
\* bound on created_utc.
api_request(matching, before) ==
  Take(SortDesc({x \in matching : before = None \/ created_utc(x) <= before[1]}),
       BatchSize)

RECURSIVE stream(_, _)
\* The pages one of the stream_* generators yields: request a page, stop at
\* the first empty one, else continue with before = created_utc of the page's
\* last item - 1.
stream(matching, before) ==
  LET current == api_request(matching, before)
  IN IF current = <<>> THEN <<>>
     ELSE <<current>> \o stream(matching, Some(created_utc(current[Len(current)]) - 1))

stream_user_submissions(username) ==
  stream({s \in src_submissions : SubmissionData[s].author = username}, None)

stream_user_comments(username) ==
  stream({c \in src_comments : CommentData[c].author = username}, None)

stream_submission_comments(submission_id) ==
  stream({c \in src_comments : AnsweredFor(c) = submission_id}, None)

\* fetch_submission(submission_id): the submission, or None
fetch_submission(submission_id) ==
  IF submission_id \in src_submissions THEN Some(submission_id) ELSE None

\* ------------------------------------------------------------- CacheStore
\* get_submission(id): the stored submission, or None
get_submission(id) == IF id \in submissions THEN Some(id) ELSE None

\* get_submission_comments(submission_id): the stored comments of a thread
get_submission_comments(submission_id) ==
  SortDesc({c \in comments : CommentData[c].link_id = submission_id})

\* get_users_submissions(username): the stored submissions of an author
get_users_submissions(username) ==
  SortDesc({s \in submissions : SubmissionData[s].author = username})

\* get_users_comments(username): the stored comments of an author
get_users_comments(username) ==
  SortDesc({c \in comments : CommentData[c].author = username})

\* get_user_cache_status(username): the row, or None
get_user_cache_status(username) ==
  IF username \in DOMAIN user_cache_status
  THEN Some(user_cache_status[username]) ELSE None

\* get_thread_cache_status(submission_id): the row, or None
get_thread_cache_status(submission_id) ==
  IF submission_id \in DOMAIN thread_cache_status
  THEN Some(thread_cache_status[submission_id]) ELSE None

\* The set of the elements of a sequence
Range(s) == {s[i] : i \in 1..Len(s)}

\* add_submissions(_submissions): INSERT ... ON CONFLICT (id) DO NOTHING
add_submissions(table, rows) ==
  IF rows = <<>> THEN table
  ELSE table \cup {r \in Range(rows) : r \notin table}

\* add_comments that puts the rows in the place of the table's
add_comments_Replaces(table, rows) ==
  IF rows = <<>> THEN table
  ELSE Range(rows)

\* add_comments(_comments): INSERT ... ON CONFLICT (id) DO NOTHING
add_comments(table, rows) ==
  IF rows = <<>> THEN table
  ELSE table \cup {r \in Range(rows) : r \notin table}

\* upsert of a status row by its key: the row of that key is replaced
upsert(table, key, row) ==
  [k \in DOMAIN table \cup {key} |-> IF k = key THEN row ELSE table[k]]

upsert_user_cache_status(table, username, row) == upsert(table, username, row)

upsert_thread_cache_status(table, submission_id, row) == upsert(table, submission_id, row)

\* ------------------------------------------------------------ fetch helpers
RECURSIVE Flatten(_)
\* The items of a list of pages, in stream order
Flatten(pages) ==
  IF pages = <<>> THEN <<>> ELSE Head(pages) \o Flatten(Tail(pages))

RECURSIVE FetchLoop_Exclusive(_, _, _, _, _)
\* FetchLoop that stops only below the cursor (< for <=)
FetchLoop_Exclusive(pages, p, i, stop_at_timestamp, acc) ==
  IF p > Len(pages) THEN [items |-> acc, requested |-> Len(pages)]
  ELSE IF i > Len(pages[p])
       THEN FetchLoop_Exclusive(pages, p + 1, 1, stop_at_timestamp, acc)
  ELSE IF stop_at_timestamp # None /\ created_utc(pages[p][i]) < stop_at_timestamp[1]
       THEN [items |-> acc, requested |-> p]
  ELSE FetchLoop_Exclusive(pages, p, i + 1, stop_at_timestamp,
                           Append(acc, pages[p][i]))

RECURSIVE FetchLoop(_, _, _, _, _)
\* The loops of _fetch_new_submissions, _fetch_new_comments_from_username and
\* _fetch_new_comments_from_submission: page p is pulled from the generator
\* when the loop reaches it; the pull of a page and the items kept so far.
FetchLoop(pages, p, i, stop_at_timestamp, acc) ==
  IF p > Len(pages) THEN [items |-> acc, requested |-> Len(pages)]
  ELSE IF i > Len(pages[p]) THEN FetchLoop(pages, p + 1, 1, stop_at_timestamp, acc)
  ELSE IF stop_at_timestamp # None /\ created_utc(pages[p][i]) <= stop_at_timestamp[1]
       THEN [items |-> acc, requested |-> p]
  ELSE FetchLoop(pages, p, i + 1, stop_at_timestamp, Append(acc, pages[p][i]))

\* The requests a fetch helper's loop made of the API: one for each page it
\* pulled, and, when it read the stream to its end, the one that was answered
\* with the empty page
RequestsMade(f, pages) ==
  IF Len(f.items) < Len(Flatten(pages)) THEN f.requested ELSE Len(pages) + 1

fetch_new_submissions(username, stop_at_timestamp) ==
  FetchLoop(stream_user_submissions(username), 1, 1, stop_at_timestamp, <<>>)

fetch_new_comments_from_username(username, stop_at_timestamp) ==
  FetchLoop(stream_user_comments(username), 1, 1, stop_at_timestamp, <<>>)

fetch_new_comments_from_submission(submission_id, stop_at_timestamp) ==
  FetchLoop(stream_submission_comments(submission_id), 1, 1, stop_at_timestamp, <<>>)

\* ------------------------------------------------------- RedditRepository
\* A call that has not happened
NoCall ==
  [ op |-> "none", arg |-> "", mode |-> "", found |-> FALSE, raised |-> FALSE,
    submissions |-> <<>>, comments |-> <<>>,
    new_submissions |-> <<>>, new_comments |-> <<>>,
    cached_submissions |-> <<>>, cached_comments |-> <<>>,
    stop_submissions |-> None, stop_comments |-> None,
    pages_submissions |-> <<>>, pages_comments |-> <<>>,
    requested_submissions |-> 0, requested_comments |-> 0,
    status |-> None, log |-> <<>>,
    http_429 |-> None, exception |-> None,
    before |-> [submissions |-> {}, comments |-> {},
                user_cache_status |-> <<>>, thread_cache_status |-> <<>>] ]

\* The store as the call found it
Before ==
  [ submissions |-> submissions, comments |-> comments,
    user_cache_status |-> user_cache_status,
    thread_cache_status |-> thread_cache_status ]

\* One entry of the call's log when the call was made, none otherwise
Ev(made, e) == IF made THEN <<e>> ELSE <<>>

\* `x if status else None` for a field of an optional row
FieldOr(status, field) == IF status # None THEN status[1][field] ELSE None

\* created_utc of the first (newest) item of a non-empty list
Newest(items) == Some(created_utc(items[1]))

\* UserContributionCacheStatus that forgets the cursor of a kind of which
\* nothing was fetched
UserContributionCacheStatus_DropsOld(new_submissions, new_comments, status) ==
  [ newest_submission_cursor |->
      IF new_submissions # <<>> THEN Newest(new_submissions) ELSE None,
    newest_comment_cursor |->
      IF new_comments # <<>> THEN Newest(new_comments) ELSE None ]

\* UserContributionCacheStatus(username, newest_submission_cursor = ...,
\* newest_comment_cursor = ...) as both syncing branches build it
UserContributionCacheStatus(new_submissions, new_comments, status) ==
  [ newest_submission_cursor |->
      IF new_submissions # <<>> THEN Newest(new_submissions)
      ELSE FieldOr(status, "newest_submission_cursor"),
    newest_comment_cursor |->
      IF new_comments # <<>> THEN Newest(new_comments)
      ELSE FieldOr(status, "newest_comment_cursor") ]

\* ThreadCacheStatus with the flag set only when comments were fetched
ThreadCacheStatus_FlagIfFetched(new_comments) ==
  [ newest_item_cursor |-> IF new_comments # <<>> THEN Newest(new_comments) ELSE None,
    is_history_complete |-> new_comments # <<>> ]

\* ThreadCacheStatus with the cursor taken from the last fetched item
ThreadCacheStatus_LastItem(new_comments) ==
  [ newest_item_cursor |->
      IF new_comments # <<>> THEN Some(created_utc(new_comments[Len(new_comments)]))
      ELSE None,
    is_history_complete |-> TRUE ]

\* ThreadCacheStatus(submission_id, newest_item_cursor = ..., is_history_complete = True)
ThreadCacheStatus(new_comments) ==
  [ newest_item_cursor |-> IF new_comments # <<>> THEN Newest(new_comments) ELSE None,
    is_history_complete |-> TRUE ]

\* `status is None or not status.is_history_complete`
NeedsFullFetch(status) == status = None \/ ~status[1].is_history_complete

\* ThreadStopAt that trusts the cached comments: stop at the newest of them
ThreadStopAt_NewestCached(status, cached_comments) ==
  IF cached_comments # <<>> THEN Newest(cached_comments) ELSE None

\* The stop cursor get_thread passes to _fetch_new_comments_from_submission
\* in DEFAULT mode
ThreadStopAt(status, cached_comments) ==
  IF NeedsFullFetch(status) THEN None ELSE status[1].newest_item_cursor

\* Merged with the cached rows in front
Merged_CachedFirst(new, cached) == cached \o new

\* `new + cached`: the lists the calls return
Merged(new, cached) == new \o cached

\* What a call leaves behind: the four tables and the record of the call
Outcome(subs, coms, ucs, tcs, call) ==
  [ submissions |-> subs, comments |-> coms,
    user_cache_status |-> ucs, thread_cache_status |-> tcs, last |-> call ]

\* The call ends with outcome o
Return(o) ==
  /\ submissions' = o.submissions
  /\ comments' = o.comments
  /\ user_cache_status' = o.user_cache_status
  /\ thread_cache_status' = o.thread_cache_status
  /\ last' = o.last
  /\ UNCHANGED <<row_tables, in_progress>>

\* get_user_contributions, CacheConfig.DEFAULT
get_user_contributions_DEFAULT(use_cache, username) ==
  LET cached_submissions == get_users_submissions(username)
      cached_comments == get_users_comments(username)
      status == get_user_cache_status(username)
      stop_s == FieldOr(status, "newest_submission_cursor")
      stop_c == FieldOr(status, "newest_comment_cursor")
      fs == fetch_new_submissions(username, stop_s)
      fc == fetch_new_comments_from_username(username, stop_c)
  IN Outcome(
       IF fs.items # <<>> THEN add_submissions(submissions, fs.items) ELSE submissions,
       IF fc.items # <<>> THEN add_comments(comments, fc.items) ELSE comments,
       upsert_user_cache_status(user_cache_status, username,
                                UserContributionCacheStatus(fs.items, fc.items, status)),
       thread_cache_status,
       [NoCall EXCEPT
          !.op = "get_user_contributions", !.arg = username, !.mode = use_cache,
          !.found = TRUE,
          !.submissions = Merged(fs.items, cached_submissions),
          !.comments = Merged(fc.items, cached_comments),
          !.new_submissions = fs.items, !.new_comments = fc.items,
          !.cached_submissions = cached_submissions,
          !.cached_comments = cached_comments,
          !.stop_submissions = stop_s, !.stop_comments = stop_c,
          !.pages_submissions = stream_user_submissions(username),
          !.pages_comments = stream_user_comments(username),
          !.requested_submissions = fs.requested,
          !.requested_comments = fc.requested,
          !.status = status,
          !.log = <<"cache.get_users_submissions", "cache.get_users_comments",
                    "cache.get_user_cache_status",
                    "source.stream_user_submissions", "source.stream_user_comments">>
                  \o Ev(fs.items # <<>>, "cache.add_submissions")
                  \o Ev(fc.items # <<>>, "cache.add_comments")
                  \o <<"cache.upsert_user_cache_status">>,
          !.before = Before])

\* get_user_contributions, CacheConfig.NO_CACHE
get_user_contributions_NO_CACHE(use_cache, username) ==
  LET fs == fetch_new_submissions(username, None)
      fc == fetch_new_comments_from_username(username, None)
  IN Outcome(submissions, comments, user_cache_status, thread_cache_status,
       [NoCall EXCEPT
          !.op = "get_user_contributions", !.arg = username, !.mode = use_cache,
          !.found = TRUE,
          !.submissions = fs.items, !.comments = fc.items,
          !.new_submissions = fs.items, !.new_comments = fc.items,
          !.pages_submissions = stream_user_submissions(username),
          !.pages_comments = stream_user_comments(username),
          !.requested_submissions = fs.requested,
          !.requested_comments = fc.requested,
          !.log = <<"source.stream_user_submissions", "source.stream_user_comments">>,
          !.before = Before])

\* The CACHE_ONLY branch that syncs with the source like the DEFAULT branch
get_user_contributions_CACHE_ONLY_Syncs(use_cache, username) ==
  get_user_contributions_DEFAULT(use_cache, username)

\* get_user_contributions, CacheConfig.CACHE_ONLY
get_user_contributions_CACHE_ONLY(use_cache, username) ==
  LET cached_comments == get_users_comments(username)
      cached_submissions == get_users_submissions(username)
  IN Outcome(submissions, comments, user_cache_status, thread_cache_status,
       [NoCall EXCEPT
          !.op = "get_user_contributions", !.arg = username, !.mode = use_cache,
          !.found = TRUE,
          !.submissions = cached_submissions, !.comments = cached_comments,
          !.cached_submissions = cached_submissions,
          !.cached_comments = cached_comments,
          !.log = <<"cache.get_users_comments", "cache.get_users_submissions">>,
          !.before = Before])

\* get_user_contributions, CacheConfig.FULL_SAVE
get_user_contributions_FULL_SAVE(use_cache, username) ==
  LET fs == fetch_new_submissions(username, None)
      fc == fetch_new_comments_from_username(username, None)
      status == get_user_cache_status(username)
  IN Outcome(
       IF fs.items # <<>> THEN add_submissions(submissions, fs.items) ELSE submissions,
       IF fc.items # <<>> THEN add_comments(comments, fc.items) ELSE comments,
       upsert_user_cache_status(user_cache_status, username,
                                UserContributionCacheStatus(fs.items, fc.items, status)),
       thread_cache_status,
       [NoCall EXCEPT
          !.op = "get_user_contributions", !.arg = username, !.mode = use_cache,
          !.found = TRUE,
          !.submissions = fs.items, !.comments = fc.items,
          !.new_submissions = fs.items, !.new_comments = fc.items,
          !.pages_submissions = stream_user_submissions(username),
          !.pages_comments = stream_user_comments(username),
          !.requested_submissions = fs.requested,
          !.requested_comments = fc.requested,
          !.status = status,
          !.log = <<"source.stream_user_submissions", "source.stream_user_comments",
                    "cache.get_user_cache_status">>
                  \o Ev(fs.items # <<>>, "cache.add_submissions")
                  \o Ev(fc.items # <<>>, "cache.add_comments")
                  \o <<"cache.upsert_user_cache_status">>,
          !.before = Before])

\* UserContributions whose DEFAULT branch returns the fetched rows only
UserContributions_FreshOnly(use_cache, username) ==
  CASE use_cache = "DEFAULT" ->
         LET o == get_user_contributions_DEFAULT(use_cache, username)
         IN [o EXCEPT !.last.submissions = o.last.new_submissions,
                      !.last.comments = o.last.new_comments]
    [] use_cache = "NO_CACHE" -> get_user_contributions_NO_CACHE(use_cache, username)
    [] use_cache = "CACHE_ONLY" -> get_user_contributions_CACHE_ONLY(use_cache, username)
    [] use_cache = "FULL_SAVE" -> get_user_contributions_FULL_SAVE(use_cache, username)

\* The branch of get_user_contributions that self.use_cache selects
UserContributions(use_cache, username) ==
  CASE use_cache = "DEFAULT" -> get_user_contributions_DEFAULT(use_cache, username)
    [] use_cache = "NO_CACHE" -> get_user_contributions_NO_CACHE(use_cache, username)
    [] use_cache = "CACHE_ONLY" -> get_user_contributions_CACHE_ONLY(use_cache, username)
    [] use_cache = "FULL_SAVE" -> get_user_contributions_FULL_SAVE(use_cache, username)

\* get_user_contributions that also marks the threads of the comments it
\* fetched as complete
get_user_contributions_MarksThreads(use_cache, username) ==
  LET o == UserContributions(use_cache, username)
      threads == {CommentData[c].link_id : c \in Range(o.last.new_comments)}
      marked == [T \in DOMAIN thread_cache_status \cup threads |->
                   IF T \in threads THEN ThreadCacheStatus(o.last.new_comments)
                   ELSE thread_cache_status[T]]
  IN /\ Return([o EXCEPT !.thread_cache_status = marked])
     /\ UNCHANGED source

\* RedditRepository.get_user_contributions(username)
get_user_contributions(use_cache, username) ==
  /\ Return(UserContributions(use_cache, username))
  /\ UNCHANGED source

\* The record of a get_thread call that returned None
ThreadNotFound(use_cache, submission_id, log) ==
  [NoCall EXCEPT !.op = "get_thread", !.arg = submission_id, !.mode = use_cache,
                 !.found = FALSE, !.log = log, !.before = Before]

\* get_thread, CacheConfig.DEFAULT
get_thread_DEFAULT(use_cache, submission_id) ==
  LET cached == get_submission(submission_id)
      cached_comments == get_submission_comments(submission_id)
      status == get_thread_cache_status(submission_id)
      submission == IF cached = None THEN fetch_submission(submission_id) ELSE cached
      full == NeedsFullFetch(status)
      stop == ThreadStopAt(status, cached_comments)
      f == fetch_new_comments_from_submission(submission_id, stop)
      new_comments == f.items
      reads == <<"cache.get_submission", "cache.get_submission_comments",
                 "cache.get_thread_cache_status">>
               \o Ev(cached = None, "source.fetch_submission")
  IN IF submission = None
     THEN Outcome(submissions, comments, user_cache_status, thread_cache_status,
            [ThreadNotFound(use_cache, submission_id, reads) EXCEPT
               !.cached_comments = cached_comments, !.status = status])
     ELSE Outcome(
            IF cached = None THEN add_submissions(submissions, <<submission_id>>)
            ELSE submissions,
            IF new_comments # <<>> THEN add_comments(comments, new_comments)
            ELSE comments,
            user_cache_status,
            IF full \/ new_comments # <<>>
            THEN upsert_thread_cache_status(thread_cache_status, submission_id,
                                            ThreadCacheStatus(new_comments))
            ELSE thread_cache_status,
            [NoCall EXCEPT
               !.op = "get_thread", !.arg = submission_id, !.mode = use_cache,
               !.found = TRUE,
               !.submissions = <<submission_id>>,
               !.comments = Merged(new_comments, cached_comments),
               !.new_comments = new_comments,
               !.cached_comments = cached_comments,
               !.stop_comments = stop,
               !.pages_comments = stream_submission_comments(submission_id),
               !.requested_comments = f.requested,
               !.status = status,
               !.log = reads
                       \o Ev(cached = None, "cache.add_submissions")
                       \o <<"source.stream_submission_comments">>
                       \o Ev(new_comments # <<>>, "cache.add_comments")
                       \o Ev(full \/ new_comments # <<>>,
                             "cache.upsert_thread_cache_status"),
               !.before = Before])

\* The NO_CACHE branch that works on the store like the DEFAULT branch
get_thread_NO_CACHE_UsesCache(use_cache, submission_id) ==
  get_thread_DEFAULT(use_cache, submission_id)

\* get_thread, CacheConfig.NO_CACHE
get_thread_NO_CACHE(use_cache, submission_id) ==
  LET submission == fetch_submission(submission_id)
      f == fetch_new_comments_from_submission(submission_id, None)
  IN Outcome(submissions, comments, user_cache_status, thread_cache_status,
       IF submission = None
       THEN ThreadNotFound(use_cache, submission_id, <<"source.fetch_submission">>)
       ELSE [NoCall EXCEPT
               !.op = "get_thread", !.arg = submission_id, !.mode = use_cache,
               !.found = TRUE,
               !.submissions = <<submission_id>>,
               !.comments = Merged(f.items, <<>>),
               !.new_comments = f.items,
               !.pages_comments = stream_submission_comments(submission_id),
               !.requested_comments = f.requested,
               !.log = <<"source.fetch_submission", "source.stream_submission_comments">>,
               !.before = Before])

\* get_thread, CacheConfig.CACHE_ONLY
get_thread_CACHE_ONLY(use_cache, submission_id) ==
  LET submission == get_submission(submission_id)
      new_comments == get_submission_comments(submission_id)
  IN Outcome(submissions, comments, user_cache_status, thread_cache_status,
       IF submission = None
       THEN ThreadNotFound(use_cache, submission_id, <<"cache.get_submission">>)
       ELSE [NoCall EXCEPT
               !.op = "get_thread", !.arg = submission_id, !.mode = use_cache,
               !.found = TRUE,
               !.submissions = <<submission_id>>,
               !.comments = Merged(new_comments, <<>>),
               !.new_comments = new_comments,
               !.log = <<"cache.get_submission", "cache.get_submission_comments">>,
               !.before = Before])

\* The FULL_SAVE branch that stops at the stored cursor like the DEFAULT
\* branch
get_thread_FULL_SAVE_Incremental(use_cache, submission_id) ==
  get_thread_DEFAULT(use_cache, submission_id)

\* get_thread, CacheConfig.FULL_SAVE
get_thread_FULL_SAVE(use_cache, submission_id) ==
  LET submission == fetch_submission(submission_id)
      f == fetch_new_comments_from_submission(submission_id, None)
      new_comments == f.items
      fetches == <<"source.fetch_submission", "source.stream_submission_comments">>
  IN IF submission = None
     THEN Outcome(submissions, comments, user_cache_status, thread_cache_status,
            [ThreadNotFound(use_cache, submission_id, fetches) EXCEPT
               !.new_comments = new_comments,
               !.pages_comments = stream_submission_comments(submission_id),
               !.requested_comments = f.requested])
     ELSE Outcome(
            add_submissions(submissions, <<submission_id>>),
            IF new_comments # <<>> THEN add_comments(comments, new_comments)
            ELSE comments,
            user_cache_status,
            upsert_thread_cache_status(thread_cache_status, submission_id,
                                       ThreadCacheStatus(new_comments)),
            [NoCall EXCEPT
               !.op = "get_thread", !.arg = submission_id, !.mode = use_cache,
               !.found = TRUE,
               !.submissions = <<submission_id>>,
               !.comments = Merged(new_comments, <<>>),
               !.new_comments = new_comments,
               !.pages_comments = stream_submission_comments(submission_id),
               !.requested_comments = f.requested,
               !.log = fetches \o <<"cache.add_submissions">>
                       \o Ev(new_comments # <<>>, "cache.add_comments")
                       \o <<"cache.upsert_thread_cache_status">>,
               !.before = Before])

\* Thread whose DEFAULT branch gives up on a cache miss instead of asking the
\* source for the submission
Thread_NoFallback(use_cache, submission_id) ==
  CASE use_cache = "DEFAULT" ->
         IF get_submission(submission_id) = None
         THEN Outcome(submissions, comments, user_cache_status, thread_cache_status,
                ThreadNotFound(use_cache, submission_id,
                               <<"cache.get_submission", "cache.get_submission_comments",
                                 "cache.get_thread_cache_status">>))
         ELSE get_thread_DEFAULT(use_cache, submission_id)
    [] use_cache = "NO_CACHE" -> get_thread_NO_CACHE(use_cache, submission_id)
    [] use_cache = "CACHE_ONLY" -> get_thread_CACHE_ONLY(use_cache, submission_id)
    [] use_cache = "FULL_SAVE" -> get_thread_FULL_SAVE(use_cache, submission_id)

\* Thread whose DEFAULT branch does not store the submission it fetched on a
\* cache miss
Thread_NotPersisted(use_cache, submission_id) ==
  CASE use_cache = "DEFAULT" ->
         LET o == get_thread_DEFAULT(use_cache, submission_id)
         IN [o EXCEPT !.submissions = submissions,
                      !.last.log = SelectSeq(@, LAMBDA e : e # "cache.add_submissions")]
    [] use_cache = "NO_CACHE" -> get_thread_NO_CACHE(use_cache, submission_id)
    [] use_cache = "CACHE_ONLY" -> get_thread_CACHE_ONLY(use_cache, submission_id)
    [] use_cache = "FULL_SAVE" -> get_thread_FULL_SAVE(use_cache, submission_id)

\* Thread whose FULL_SAVE branch stores the streamed comments before it looks
\* whether the submission was found
Thread_SavesBeforeCheck(use_cache, submission_id) ==
  CASE use_cache = "DEFAULT" -> get_thread_DEFAULT(use_cache, submission_id)
    [] use_cache = "NO_CACHE" -> get_thread_NO_CACHE(use_cache, submission_id)
    [] use_cache = "CACHE_ONLY" -> get_thread_CACHE_ONLY(use_cache, submission_id)
    [] use_cache = "FULL_SAVE" ->
         LET o == get_thread_FULL_SAVE(use_cache, submission_id)
         IN IF ~o.last.found /\ o.last.new_comments # <<>>
            THEN [o EXCEPT !.comments = add_comments(comments, o.last.new_comments)]
            ELSE o

\* The branch of get_thread that self.use_cache selects
Thread(use_cache, submission_id) ==
  CASE use_cache = "DEFAULT" -> get_thread_DEFAULT(use_cache, submission_id)
    [] use_cache = "NO_CACHE" -> get_thread_NO_CACHE(use_cache, submission_id)
    [] use_cache = "CACHE_ONLY" -> get_thread_CACHE_ONLY(use_cache, submission_id)
    [] use_cache = "FULL_SAVE" -> get_thread_FULL_SAVE(use_cache, submission_id)

\* get_thread that also moves the comment cursor of the author of the newest
\* comment it fetched
get_thread_MovesUserCursor(use_cache, submission_id) ==
  LET o == Thread(use_cache, submission_id)
      new_comments == o.last.new_comments
      author == CommentData[new_comments[1]].author
      moved == upsert_user_cache_status(user_cache_status, author,
                 UserContributionCacheStatus(<<>>, new_comments,
                                             get_user_cache_status(author)))
  IN /\ Return(IF new_comments # <<>> THEN [o EXCEPT !.user_cache_status = moved]
               ELSE o)
     /\ UNCHANGED source

\* RedditRepository.get_thread(submission_id)
get_thread(use_cache, submission_id) ==
  /\ Return(Thread(use_cache, submission_id))
  /\ UNCHANGED source

\* The most requests one get_thread call makes of the API: fetch_submission,
\* a page for every comment, and the empty page
Requests == 1..(Cardinality(CommentIds) + 2)

\* get_thread whose request number `failing` of the API raises (api_request
\* has given up after its attempts): the exception leaves get_thread where
\* the request was made.  What was committed before stays; nothing after the
\* request is executed.
ThreadRaises(use_cache, submission_id, failing, after) ==
  LET cached == IF use_cache = "DEFAULT" THEN get_submission(submission_id) ELSE None
      cached_comments == IF use_cache = "DEFAULT"
                         THEN get_submission_comments(submission_id) ELSE <<>>
      status == IF use_cache = "DEFAULT"
                THEN get_thread_cache_status(submission_id) ELSE None
      asks == cached = None
      first == IF asks THEN 1 ELSE 0
      in_fetch == asks /\ failing = 1
      stop == IF use_cache = "DEFAULT" /\ ~in_fetch
              THEN ThreadStopAt(status, cached_comments) ELSE None
      pages == stream_submission_comments(submission_id)
      reads == IF use_cache = "DEFAULT"
               THEN <<"cache.get_submission", "cache.get_submission_comments",
                      "cache.get_thread_cache_status">>
               ELSE <<>>
      stored == use_cache = "DEFAULT" /\ asks /\ ~in_fetch
  IN Outcome(
       IF stored THEN add_submissions(submissions, <<submission_id>>) ELSE submissions,
       comments, user_cache_status, after,
       [NoCall EXCEPT
          !.op = "get_thread", !.arg = submission_id, !.mode = use_cache,
          !.raised = TRUE,
          !.cached_comments = cached_comments,
          !.stop_comments = stop,
          !.pages_comments = IF in_fetch THEN <<>>
                             ELSE SubSeq(pages, 1, failing - first - 1),
          !.requested_comments = failing - first,
          !.status = status,
          !.log = reads
                  \o Ev(asks, "source.fetch_submission")
                  \o Ev(stored, "cache.add_submissions")
                  \o Ev(~in_fetch, "source.stream_submission_comments"),
          !.before = Before])

\* The requests of the API a get_thread call makes: fetch_submission unless
\* the DEFAULT branch found the submission stored, then those of the comment
\* stream when the branch comes to open it
RequestsOfThread(use_cache, submission_id) ==
  LET cached == IF use_cache = "DEFAULT" THEN get_submission(submission_id) ELSE None
      submission == IF cached = None THEN fetch_submission(submission_id) ELSE cached
      stop == IF use_cache = "DEFAULT"
              THEN ThreadStopAt(get_thread_cache_status(submission_id),
                                get_submission_comments(submission_id))
              ELSE None
      streams == use_cache = "FULL_SAVE" \/ submission # None
  IN (IF cached = None THEN 1 ELSE 0)
     + (IF streams
        THEN RequestsMade(fetch_new_comments_from_submission(submission_id, stop),
                          stream_submission_comments(submission_id))
        ELSE 0)

\* get_thread that, when the comment stream raises, still records the thread
\* as complete
get_thread_raises_MarksComplete(use_cache, submission_id, failing) ==
  /\ use_cache # "CACHE_ONLY"
  /\ failing \in 1..RequestsOfThread(use_cache, submission_id)
  /\ Return(ThreadRaises(use_cache, submission_id, failing,
                         IF use_cache = "NO_CACHE" THEN thread_cache_status
                         ELSE upsert_thread_cache_status(thread_cache_status,
                                submission_id, ThreadCacheStatus(<<>>))))
  /\ UNCHANGED source

\* RedditRepository.get_thread(submission_id), raising: the source fails at
\* request number `failing` of the call
get_thread_raises(use_cache, submission_id, failing) ==
  /\ use_cache # "CACHE_ONLY"
  /\ failing \in 1..RequestsOfThread(use_cache, submission_id)
  /\ Return(ThreadRaises(use_cache, submission_id, failing, thread_cache_status))
  /\ UNCHANGED source

\* ------------------------------------------------------------- environment
\* A submission appears on, or is removed from, the platform
SourceSubmission(id) ==
  /\ src_submissions' = IF id \in src_submissions THEN src_submissions \ {id}
                        ELSE src_submissions \cup {id}
  /\ last' = NoCall
  /\ UNCHANGED <<src_comments, store, row_tables, in_progress>>

\* A comment appears on, or is removed from, the platform
SourceComment(id) ==
  /\ src_comments' = IF id \in src_comments THEN src_comments \ {id}
                     ELSE src_comments \cup {id}
  /\ last' = NoCall
  /\ UNCHANGED <<src_submissions, store, row_tables, in_progress>>

\* ------------------------------------------------------------ specification
\* Before any call of order_comments
NoTree ==
  [ submission_id |-> "S1", comments |-> <<>>, root |-> <<>>,
    replies |-> <<>>, warned |-> <<>> ]

\* The callers that use the repository at the same time
Callers == {"A", "B"}

\* A caller that is in no call of get_thread; the fields of a call: the
\* statement it is at, the mode, the argument, the local variables, the
\* stream's params["before"], the attempt of the request it is in, and what
\* it has written so far
\* No stream has been opened
NoStream ==
  [state |-> "idle", held |-> {}, before |-> None, yielded |-> <<>>,
   requests |-> 0]

Idle ==
  [ pc |-> "idle", use_cache |-> "DEFAULT", submission_id |-> "T1",
    submission |-> None, cached_comments |-> <<>>, status |-> None,
    before |-> None, new_comments |-> <<>>, attempt |-> 1,
    inserted |-> {}, wrote_status |-> FALSE ]

Init ==
  /\ src_submissions = {}
  /\ src_comments = {}
  /\ submissions = {}
  /\ comments = {}
  /\ user_cache_status = <<>>
  /\ thread_cache_status = <<>>
  /\ last = NoCall
  /\ submission_rows = <<>>
  /\ comment_rows = <<>>
  /\ written = <<>>
  /\ calls = [p \in Callers |-> Idle]
  /\ flag_fetch = <<>>
  /\ tree = NoTree
  /\ pager = NoStream

Next ==
  \/ \E use_cache \in CacheConfig, username \in Usernames :
       get_user_contributions(use_cache, username)
  \/ \E use_cache \in CacheConfig, submission_id \in SubmissionIds :
       get_thread(use_cache, submission_id)
  \/ \E use_cache \in CacheConfig, submission_id \in SubmissionIds, failing \in Requests :
       get_thread_raises(use_cache, submission_id, failing)
  \/ \E id \in SubmissionIds : SourceSubmission(id)
  \/ \E id \in CommentIds : SourceComment(id)

Spec == Init /\ [][Next]_vars

\* ------------------------------------------------ RedditCache, row by row
\* The tables of the store with the content of their rows.  The repository
\* above needs only the ids a table holds; here a row is the id and the
\* raw_json it was written with, and a table is the list of its rows.

\* The values raw_json takes: the same item seen with different content
Contents == {"v1", "v2"}

\* The dicts of submissions and of comments handed to the store
SubmissionDicts == [id : SubmissionIds, raw_json : Contents]
CommentDicts == [id : CommentIds, raw_json : Contents]

\* The lists of at most MaxBatch dicts
Batches(dicts) == UNION {[1..n -> dicts] : n \in 0..MaxBatch}

\* The table holds a row of that id
Stored(table, id) == \E k \in 1..Len(table) : table[k].id = id

RECURSIVE on_conflict_do_update(_, _)
\* The INSERT with ON CONFLICT (id) DO UPDATE: a row whose id the table holds
\* replaces the content of the stored row
on_conflict_do_update(table, values) ==
  IF values = <<>> THEN table
  ELSE LET row == Head(values)
       IN on_conflict_do_update(
            IF Stored(table, row.id)
            THEN [k \in 1..Len(table) |->
                    IF table[k].id = row.id THEN row ELSE table[k]]
            ELSE Append(table, row),
            Tail(values))

RECURSIVE on_conflict_do_nothing(_, _)
\* insert(...).values(rows).on_conflict_do_nothing(index_elements=['id']):
\* the rows are inserted in the order of the list; a row whose id the table
\* holds already (from before, or from earlier in the list) is skipped
on_conflict_do_nothing(table, values) ==
  IF values = <<>> THEN table
  ELSE LET row == Head(values)
       IN on_conflict_do_nothing(
            IF Stored(table, row.id) THEN table ELSE Append(table, row),
            Tail(values))

RECURSIVE Writes(_, _)
\* The record of what was written for each id, after the dicts of a list:
\* the raw_json of the first write, and whether a later write had another
Writes(history, values) ==
  IF values = <<>> THEN history
  ELSE LET row == Head(values)
       IN Writes(
            IF row.id \in DOMAIN history
            THEN [history EXCEPT
                    ![row.id].rewritten = @ \/ row.raw_json # history[row.id].first]
            ELSE [id \in DOMAIN history \cup {row.id} |->
                    IF id = row.id THEN [first |-> row.raw_json, rewritten |-> FALSE]
                    ELSE history[id]],
            Tail(values))

\* RedditCache.add_submissions(_submissions)
RedditCache_add_submissions(dicts) ==
  /\ submission_rows' = IF dicts = <<>> THEN submission_rows
                        ELSE on_conflict_do_nothing(submission_rows, dicts)
  /\ written' = Writes(written, dicts)
  /\ UNCHANGED <<comment_rows, source, store, last, in_progress>>

\* RedditCache.add_comments(_comments)
RedditCache_add_comments(dicts) ==
  /\ comment_rows' = IF dicts = <<>> THEN comment_rows
                     ELSE on_conflict_do_nothing(comment_rows, dicts)
  /\ written' = Writes(written, dicts)
  /\ UNCHANGED <<submission_rows, source, store, last, in_progress>>

NextIngest ==
  \/ \E dicts \in Batches(SubmissionDicts) : RedditCache_add_submissions(dicts)
  \/ \E dicts \in Batches(CommentDicts) : RedditCache_add_comments(dicts)

SpecIngest == Init /\ [][NextIngest]_vars


\* ------------------------------------- get_thread, statement by statement
\* Two callers use get_thread on the same store at the same time.  A step is
\* one call of the store or one request of the API together with the local
\* statements that follow it; the steps of the callers interleave, a request
\* can fail, and a caller can be stopped between two of its steps.  The
\* tables are submission_rows, comment_rows and thread_cache_status.

\* The modes whose get_thread writes to the store
WritingConfig == {"DEFAULT", "FULL_SAVE"}

\* The ids of the rows of a table
RowIds(table) == {table[k].id : k \in 1..Len(table)}

\* The dicts add_submissions / add_comments make of the fetched objects
RowsOf(items) == [k \in 1..Len(items) |-> [id |-> items[k], raw_json |-> "v1"]]

\* The rows of `after` that `before` did not hold
Inserted(before, after) == RowIds(after) \ RowIds(before)

\* The call of caller p
Call(p) == calls[p]

\* The call of caller p becomes c
Becomes(p, c) == calls' = [calls EXCEPT ![p] = c]

\* A caller that is in a call
Running(p) == Call(p).pc \notin {"idle", "done", "raised", "stopped"}

\* What is left of a call that ended without returning
Ended(c, how) ==
  [Idle EXCEPT !.pc = how, !.use_cache = c.use_cache,
               !.submission_id = c.submission_id, !.attempt = c.attempt,
               !.inserted = c.inserted, !.wrote_status = c.wrote_status]

\* get_thread(submission_id) is called
Begin(p, use_cache, submission_id) ==
  /\ ~Running(p)
  /\ Becomes(p, [Idle EXCEPT
                   !.pc = IF use_cache = "DEFAULT" THEN "get_submission"
                          ELSE "fetch_submission",
                   !.use_cache = use_cache, !.submission_id = submission_id])
  /\ UNCHANGED <<source, store, last, row_tables, flag_fetch, tree, pager>>

\* DEFAULT: submission = self.cache.get_submission(submission_id)
GetSubmission(p) ==
  LET c == Call(p)
  IN /\ c.pc = "get_submission"
     /\ Becomes(p, [c EXCEPT
                      !.pc = "get_submission_comments",
                      !.submission = IF c.submission_id \in RowIds(submission_rows)
                                     THEN Some(c.submission_id) ELSE None])
     /\ UNCHANGED <<source, store, last, row_tables, flag_fetch, tree, pager>>

\* DEFAULT: cached_comments = self.cache.get_submission_comments(submission_id)
GetSubmissionComments(p) ==
  LET c == Call(p)
  IN /\ c.pc = "get_submission_comments"
     /\ Becomes(p, [c EXCEPT
                      !.pc = "get_thread_cache_status",
                      !.cached_comments =
                         SortDesc({x \in RowIds(comment_rows) :
                                     CommentData[x].link_id = c.submission_id})])
     /\ UNCHANGED <<source, store, last, row_tables, flag_fetch, tree, pager>>

\* DEFAULT: status = self.cache.get_thread_cache_status(submission_id), and
\* `if submission is None`
GetThreadCacheStatus(p) ==
  LET c == Call(p)
  IN /\ c.pc = "get_thread_cache_status"
     /\ Becomes(p, [c EXCEPT
                      !.pc = IF c.submission = None THEN "fetch_submission"
                             ELSE "stream",
                      !.status = get_thread_cache_status(c.submission_id)])
     /\ UNCHANGED <<source, store, last, row_tables, flag_fetch, tree, pager>>

\* stop=stop_after_attempt(3)
stop_after_attempt == 3

\* The call is in a request of the API
InRequest(c) == c.pc \in {"fetch_submission", "stream"}

\* RequestFails that gives up one attempt late (<= for <)
RequestFails_OneMore(p) ==
  LET c == Call(p)
  IN /\ InRequest(c)
     /\ Becomes(p, IF c.attempt <= stop_after_attempt
                   THEN [c EXCEPT !.attempt = @ + 1]
                   ELSE Ended(c, "raised"))
     /\ UNCHANGED <<source, store, last, row_tables, flag_fetch, tree, pager>>

\* requests.get or raise_for_status raises a RequestException: api_request
\* is tried again, and after the last attempt tenacity raises, which ends
\* the call of get_thread
RequestFails(p) ==
  LET c == Call(p)
  IN /\ InRequest(c)
     /\ Becomes(p, IF c.attempt < stop_after_attempt
                   THEN [c EXCEPT !.attempt = @ + 1]
                   ELSE Ended(c, "raised"))
     /\ UNCHANGED <<source, store, last, row_tables, flag_fetch, tree, pager>>

\* The comments the call's fetch is for: all of them unless the stored
\* status says the history is complete
FullFetch(c) == c.use_cache = "FULL_SAVE" \/ NeedsFullFetch(c.status)

\* Where the call goes when _fetch_new_comments_from_submission has returned
AfterFetch(c, new_comments) ==
  IF c.use_cache = "FULL_SAVE"
  THEN IF c.submission = None THEN "done" ELSE "add_submissions"
  ELSE IF new_comments # <<>> THEN "add_comments"
  ELSE IF FullFetch(c) THEN "upsert_thread_cache_status"
  ELSE "done"

\* submission = self.push_pull.fetch_submission(submission_id) is answered
FetchSubmission(p) ==
  LET c == Call(p)
      submission == fetch_submission(c.submission_id)
  IN /\ c.pc = "fetch_submission"
     /\ Becomes(p, [c EXCEPT
                      !.pc = IF c.use_cache = "FULL_SAVE" THEN "stream"
                             ELSE IF submission = None THEN "done"
                             ELSE "add_submissions",
                      !.submission = submission,
                      !.attempt = 1])
     /\ UNCHANGED <<source, store, last, row_tables, flag_fetch, tree, pager>>

\* self.cache.add_submissions([submission])
AddSubmissions(p) ==
  LET c == Call(p)
      table == on_conflict_do_nothing(submission_rows, RowsOf(c.submission))
  IN /\ c.pc = "add_submissions"
     /\ submission_rows' = table
     /\ Becomes(p, [c EXCEPT
                      !.pc = IF c.use_cache = "DEFAULT" THEN "stream"
                             ELSE IF c.new_comments # <<>> THEN "add_comments"
                             ELSE "upsert_thread_cache_status",
                      !.inserted = @ \cup Inserted(submission_rows, table)])
     /\ UNCHANGED <<source, store, last, comment_rows, written, flag_fetch, tree, pager>>

\* A request of stream_submission_comments is answered, and the loop of
\* _fetch_new_comments_from_submission takes the page: the fetch returns at
\* the empty page and at the first item at or below the stop cursor, else
\* the generator goes on with before = created_utc of the last item - 1
StreamSubmissionComments(p) ==
  LET c == Call(p)
      current == api_request({x \in src_comments :
                                CommentData[x].link_id = c.submission_id},
                             c.before)
      taken == FetchLoop(<<current>>, 1, 1,
                         ThreadStopAt(c.status, c.cached_comments),
                         c.new_comments).items
      returns == current = <<>>
                 \/ Len(taken) < Len(c.new_comments) + Len(current)
  IN /\ c.pc = "stream"
     /\ Becomes(p, [c EXCEPT
                      !.pc = IF returns THEN AfterFetch(c, taken) ELSE "stream",
                      !.before = IF returns THEN None
                                 ELSE Some(created_utc(current[Len(current)]) - 1),
                      !.new_comments = taken,
                      !.attempt = 1])
     /\ UNCHANGED <<source, store, last, row_tables, flag_fetch, tree, pager>>

\* AddComments with a plain INSERT: a row whose id the table holds raises
AddComments_PlainInsert(p) ==
  LET c == Call(p)
      conflict == Range(c.new_comments) \cap RowIds(comment_rows) # {}
  IN /\ c.pc = "add_comments"
     /\ comment_rows' = IF conflict THEN comment_rows
                        ELSE comment_rows \o RowsOf(c.new_comments)
     /\ Becomes(p, IF conflict THEN Ended(c, "raised")
                   ELSE [c EXCEPT
                           !.pc = "upsert_thread_cache_status",
                           !.inserted = @ \cup Range(c.new_comments)])
     /\ UNCHANGED <<source, store, last, submission_rows, written, flag_fetch, tree, pager>>

\* AddComments that does not write
AddComments_Skipped(p) ==
  LET c == Call(p)
  IN /\ c.pc = "add_comments"
     /\ Becomes(p, [c EXCEPT !.pc = "upsert_thread_cache_status"])
     /\ UNCHANGED <<source, store, last, row_tables, flag_fetch, tree, pager>>

\* self.cache.add_comments(new_comments)
AddComments(p) ==
  LET c == Call(p)
      table == on_conflict_do_nothing(comment_rows, RowsOf(c.new_comments))
  IN /\ c.pc = "add_comments"
     /\ comment_rows' = table
     /\ Becomes(p, [c EXCEPT
                      !.pc = "upsert_thread_cache_status",
                      !.inserted = @ \cup Inserted(comment_rows, table)])
     /\ UNCHANGED <<source, store, last, submission_rows, written, flag_fetch, tree, pager>>

\* self.cache.upsert_thread_cache_status(ThreadCacheStatus(...)), and
\* return submission, new_comments + cached_comments
UpsertThreadCacheStatus(p) ==
  LET c == Call(p)
  IN /\ c.pc = "upsert_thread_cache_status"
     /\ thread_cache_status' =
          upsert_thread_cache_status(thread_cache_status, c.submission_id,
                                     ThreadCacheStatus(c.new_comments))
     /\ flag_fetch' =
          IF FullFetch(c)
          THEN [T \in DOMAIN flag_fetch \cup {c.submission_id} |->
                  IF T = c.submission_id THEN Range(c.new_comments)
                  ELSE flag_fetch[T]]
          ELSE flag_fetch
     /\ Becomes(p, [c EXCEPT !.pc = "done", !.wrote_status = TRUE])
     /\ UNCHANGED <<source, submissions, comments, user_cache_status, last,
                    row_tables, tree, pager>>

\* The caller is stopped between two steps of its call
Stopped(p) ==
  /\ Running(p)
  /\ Becomes(p, Ended(Call(p), "stopped"))
  /\ UNCHANGED <<source, store, last, row_tables, flag_fetch, tree, pager>>

\* A submission appears on the platform
SubmissionPosted(id) ==
  /\ id \notin src_submissions
  /\ src_submissions' = src_submissions \cup {id}
  /\ UNCHANGED <<src_comments, store, last, row_tables, in_progress>>

\* The comments that appear while the callers are at work
RepliesPosted == {"c1", "c2"}

\* A comment appears on the platform
CommentPosted(id) ==
  /\ id \notin src_comments
  /\ src_comments' = src_comments \cup {id}
  /\ UNCHANGED <<src_submissions, store, last, row_tables, in_progress>>

NextCallers ==
  \/ \E p \in Callers, use_cache \in WritingConfig, submission_id \in SubmissionIds :
       Begin(p, use_cache, submission_id)
  \/ \E p \in Callers : GetSubmission(p)
  \/ \E p \in Callers : GetSubmissionComments(p)
  \/ \E p \in Callers : GetThreadCacheStatus(p)
  \/ \E p \in Callers : RequestFails(p)
  \/ \E p \in Callers : FetchSubmission(p)
  \/ \E p \in Callers : AddSubmissions(p)
  \/ \E p \in Callers : StreamSubmissionComments(p)
  \/ \E p \in Callers : AddComments(p)
  \/ \E p \in Callers : UpsertThreadCacheStatus(p)
  \/ \E p \in Callers : Stopped(p)
  \/ \E id \in SubmissionIds : SubmissionPosted(id)
  \/ \E id \in RepliesPosted : CommentPosted(id)

SpecCallers == Init /\ [][NextCallers]_vars

\* ---------------------------------------------------------- order_comments
\* src/rag/tree.py.  A comment is its id and its parent_id; a parent_id is a
\* Python value: None, a str or an int.

\* The longest list of comments handed to order_comments
MaxComments == 3

PyNone == [type |-> "NoneType"]
PyStr(s) == [type |-> "str", value |-> s]
PyInt(n) == [type |-> "int", value |-> n]

\* bool(v)
Truthy(v) ==
  CASE v.type = "NoneType" -> FALSE
    [] v.type = "str" -> v.value # ""
    [] v.type = "int" -> v.value # 0

\* The ids of the comments of a thread and the parent_ids they can carry:
\* none, empty, a number, the submission, a comment, an id nobody has
TreeIds == {"c1", "c2", "c3", "c4"}
ParentIds ==
  {PyNone, PyStr(""), PyInt(7), PyStr("S1"), PyStr("missing_id")}
    \cup {PyStr(id) : id \in TreeIds}

\* The lists of at most MaxComments comments with distinct ids
CommentLists ==
  UNION {{l \in [1..n -> [id : TreeIds, parent_id : ParentIds]] :
            \A i, j \in 1..n : l[i].id = l[j].id => i = j} : n \in 0..MaxComments}

\* The node of the comment goes to the list root
ToRoot(t, comment, warning) ==
  [t EXCEPT !.root = Append(@, comment.id),
            !.warned = IF warning THEN Append(@, comment.id) ELSE @]

\* Place that leaves out the comment whose parent is not in the list
Place_DropsOrphan(submission_id, comment, nodes, t) ==
  LET parent_id == comment.parent_id
  IN IF ~Truthy(parent_id) \/ parent_id.type = "int" THEN ToRoot(t, comment, TRUE)
     ELSE IF parent_id.value = submission_id THEN ToRoot(t, comment, FALSE)
     ELSE IF parent_id.value \in nodes
          THEN [t EXCEPT !.replies[parent_id.value] = Append(@, comment.id)]
     ELSE [t EXCEPT !.warned = Append(@, comment.id)]

\* Place that puts a reply in front of the earlier ones (insert(0, ...))
Place_NewestFirst(submission_id, comment, nodes, t) ==
  LET parent_id == comment.parent_id
  IN IF ~Truthy(parent_id) \/ parent_id.type = "int" THEN ToRoot(t, comment, TRUE)
     ELSE IF parent_id.value = submission_id THEN ToRoot(t, comment, FALSE)
     ELSE IF parent_id.value \in nodes
          THEN [t EXCEPT !.replies[parent_id.value] = <<comment.id>> \o @]
     ELSE ToRoot(t, comment, TRUE)

\* Place that also makes a root of a reply (the else branch not under elif)
Place_ReplyAlsoRoot(submission_id, comment, nodes, t) ==
  LET parent_id == comment.parent_id
  IN IF ~Truthy(parent_id) \/ parent_id.type = "int" THEN ToRoot(t, comment, TRUE)
     ELSE IF parent_id.value = submission_id THEN ToRoot(t, comment, FALSE)
     ELSE IF parent_id.value \in nodes
          THEN ToRoot([t EXCEPT !.replies[parent_id.value] = Append(@, comment.id)],
                      comment, FALSE)
     ELSE ToRoot(t, comment, TRUE)

\* The body of `for comment in comments`
Place(submission_id, comment, nodes, t) ==
  LET parent_id == comment.parent_id
  IN IF ~Truthy(parent_id) \/ parent_id.type = "int" THEN ToRoot(t, comment, TRUE)
     ELSE IF parent_id.value = submission_id THEN ToRoot(t, comment, FALSE)
     ELSE IF parent_id.value \in nodes
          THEN [t EXCEPT !.replies[parent_id.value] = Append(@, comment.id)]
     ELSE ToRoot(t, comment, TRUE)

RECURSIVE ForEachComment(_, _, _, _, _)
\* The loop over the comments, from the k-th on
ForEachComment(submission_id, comment_list, k, nodes, t) ==
  IF k > Len(comment_list) THEN t
  ELSE ForEachComment(submission_id, comment_list, k + 1, nodes,
                      Place(submission_id, comment_list[k], nodes, t))

\* order_comments(submission_id, comments): nodes has a node for every id
\* of the list before the loop starts
order_comments(submission_id, comment_list) ==
  LET nodes == {comment_list[k].id : k \in 1..Len(comment_list)}
  IN /\ tree' = ForEachComment(submission_id, comment_list, 1, nodes,
                               [ submission_id |-> submission_id,
                                 comments |-> comment_list, root |-> <<>>,
                                 replies |-> [id \in nodes |-> <<>>],
                                 warned |-> <<>> ])
     /\ UNCHANGED <<source, store, last, row_tables, calls, flag_fetch, pager>>

\* One call, with any of the lists
NextTree ==
  /\ tree = NoTree
  /\ \E comment_list \in CommentLists : order_comments("S1", comment_list)

SpecTree == Init /\ [][NextTree]_vars

\* ------------------------------------------- comments of the same second
\* Calls in DEFAULT mode while the platform grows: a submission or a comment
\* is added, never removed, and a comment is not older than those the
\* platform holds; c4 can arrive after c3, with the same created_utc.

\* The submission appears on the platform
SubmissionAdded(id) ==
  /\ id \notin src_submissions
  /\ SourceSubmission(id)

\* The comment appears on the platform
CommentAdded(id) ==
  /\ id \notin src_comments
  /\ \A c \in src_comments : created_utc(c) <= created_utc(id)
  /\ SourceComment(id)

NextGrowing ==
  \/ \E username \in Usernames : get_user_contributions("DEFAULT", username)
  \/ \E submission_id \in SubmissionIds : get_thread("DEFAULT", submission_id)
  \/ \E id \in SubmissionIds : SubmissionAdded(id)
  \/ \E id \in CommentIds \cup SameSecondIds : CommentAdded(id)

SpecGrowing == Init /\ [][NextGrowing]_vars

\* ------------------------------------------------------------------ claims
\* Vocabulary of the properties below.

\* The call's log has entry e
Logged(e) == \E k \in 1..Len(last.log) : last.log[k] = e

\* How often the call's log has entry e
TimesLogged(e) == Cardinality({k \in 1..Len(last.log) : last.log[k] = e})

\* The positions of stream `flat` at which fetching with cursor `stop` ends
StopPositions(flat, stop) ==
  {k \in 1..Len(flat) : stop # None /\ created_utc(flat[k]) <= stop[1]}

\* The least element of a non-empty set of numbers
Least(S) == CHOOSE k \in S : \A j \in S : k <= j

\* The items of `flat` before the first one at or below the cursor
BeforeStop(flat, stop) ==
  IF StopPositions(flat, stop) = {} THEN flat
  ELSE SubSeq(flat, 1, Least(StopPositions(flat, stop)) - 1)

\* The number of the page that holds position k of the stream
PageOf(pages, k) ==
  Least({p \in 1..Len(pages) : k <= Len(Flatten(SubSeq(pages, 1, p)))})

\* The pages a fetch with cursor `stop` has to pull
PagesNeeded(pages, stop) ==
  IF StopPositions(Flatten(pages), stop) = {} THEN Len(pages)
  ELSE PageOf(pages, Least(StopPositions(Flatten(pages), stop)))

\* No id occurs twice in the list
NoDuplicates(list) ==
  \A j, k \in 1..Len(list) : list[j] = list[k] => j = k

\* A DEFAULT-mode get_thread that found the submission ...
DefaultThreadCall ==
  last.op = "get_thread" /\ last.mode = "DEFAULT" /\ last.found

\* ... and found no status row, or one that is not complete
FullFetchCall ==
  /\ DefaultThreadCall
  /\ (last.status = None \/ ~last.status[1].is_history_complete)

\* ... and found a status row that is complete
IncrementalCall ==
  /\ DefaultThreadCall
  /\ last.status # None
  /\ last.status[1].is_history_complete

\* ------------------------------------------------- a rate-limited source
\* The repository over a source that signals rate limiting as RedditClient
\* does: _get answers a request with the page, or, on HTTP 429, raises
\* RedditRateLimitException.  The fetch helpers and the calls have no except
\* clause.

\* X-Ratelimit-Reset of a 429 response: absent, or seconds
ResetHeaders == {None, Some(7)}

\* retry_after when the 429 response has no X-Ratelimit-Reset
default_retry_after == 60

\* class RedditRateLimitException(Exception)
RedditRateLimitException(retry_after) ==
  [type |-> "RedditRateLimitException", retry_after |-> retry_after]

\* _get on status 429: retry_after = float(reset) if reset else 60.0
RateLimited(reset) ==
  RedditRateLimitException(IF reset # None THEN reset[1] ELSE default_retry_after)

\* The modes in which a call asks the source and writes to the store
Syncing == {"DEFAULT", "FULL_SAVE"}

\* The requests of the API a user sync makes: those of the submission stream,
\* then those of the comment stream
RequestsOfUser(use_cache, username) ==
  LET status == IF use_cache = "DEFAULT" THEN get_user_cache_status(username)
                ELSE None
  IN RequestsMade(fetch_new_submissions(username,
                    FieldOr(status, "newest_submission_cursor")),
                  stream_user_submissions(username))
     + RequestsMade(fetch_new_comments_from_username(username,
                      FieldOr(status, "newest_comment_cursor")),
                    stream_user_comments(username))

\* What the user sync has done when request number `failing` is answered
\* with 429: the cursors it fetches to, and the pages it received
UserSyncUntil(use_cache, username, failing) ==
  LET status == IF use_cache = "DEFAULT" THEN get_user_cache_status(username)
                ELSE None
      stop_s == FieldOr(status, "newest_submission_cursor")
      stop_c == FieldOr(status, "newest_comment_cursor")
      pages_s == stream_user_submissions(username)
      pages_c == stream_user_comments(username)
      fs == FetchLoop(pages_s, 1, 1, stop_s, <<>>)
      ns == RequestsMade(fs, pages_s)
      in_s == failing <= ns
      got_s == IF in_s THEN SubSeq(pages_s, 1, failing - 1) ELSE pages_s
      got_c == IF in_s THEN <<>> ELSE SubSeq(pages_c, 1, failing - ns - 1)
  IN [ status |-> status, stop_s |-> stop_s, stop_c |-> stop_c,
       in_s |-> in_s, got_s |-> got_s, got_c |-> got_c,
       requested_s |-> IF in_s THEN failing ELSE fs.requested,
       requested_c |-> IF in_s THEN 0 ELSE failing - ns,
       kept_s |-> FetchLoop(got_s, 1, 1, stop_s, <<>>).items,
       kept_c |-> FetchLoop(got_c, 1, 1, stop_c, <<>>).items ]

\* The record of a user sync in which the source answered with 429
RateLimitedUserCall(use_cache, username, u, reset) ==
  [NoCall EXCEPT
     !.op = "get_user_contributions", !.arg = username, !.mode = use_cache,
     !.http_429 = Some(reset),
     !.cached_submissions = IF use_cache = "DEFAULT"
                            THEN get_users_submissions(username) ELSE <<>>,
     !.cached_comments = IF use_cache = "DEFAULT"
                         THEN get_users_comments(username) ELSE <<>>,
     !.stop_submissions = u.stop_s, !.stop_comments = u.stop_c,
     !.pages_submissions = u.got_s, !.pages_comments = u.got_c,
     !.requested_submissions = u.requested_s,
     !.requested_comments = u.requested_c,
     !.status = u.status,
     !.before = Before]

\* Fetch helpers that take the exception for the end of the stream
\* (`except RedditRateLimitException: return new_...`): the call goes on with
\* what the helper has
get_user_contributions_rate_limited_KeepsPartial(use_cache, username, failing, reset) ==
  LET u == UserSyncUntil(use_cache, username, failing)
      saves == use_cache # "NO_CACHE"
      call == RateLimitedUserCall(use_cache, username, u, reset)
  IN /\ use_cache \in Syncing
     /\ failing \in 1..RequestsOfUser(use_cache, username)
     /\ Return(Outcome(
          IF saves /\ u.kept_s # <<>> THEN add_submissions(submissions, u.kept_s)
          ELSE submissions,
          IF saves /\ u.kept_c # <<>> THEN add_comments(comments, u.kept_c)
          ELSE comments,
          IF saves
          THEN upsert_user_cache_status(user_cache_status, username,
                 UserContributionCacheStatus(u.kept_s, u.kept_c,
                                             get_user_cache_status(username)))
          ELSE user_cache_status,
          thread_cache_status,
          [call EXCEPT
             !.found = TRUE,
             !.new_submissions = u.kept_s, !.new_comments = u.kept_c,
             !.submissions = Merged(u.kept_s, call.cached_submissions),
             !.comments = Merged(u.kept_c, call.cached_comments)]))
     /\ UNCHANGED source

\* Repository.get_user_contributions(username) in which request number
\* `failing` is answered with 429: the exception leaves the generator, the
\* fetch helper and the call; nothing after the fetch is executed
get_user_contributions_rate_limited(use_cache, username, failing, reset) ==
  LET u == UserSyncUntil(use_cache, username, failing)
  IN /\ use_cache \in Syncing
     /\ failing \in 1..RequestsOfUser(use_cache, username)
     /\ Return(Outcome(submissions, comments, user_cache_status,
                       thread_cache_status,
                       [RateLimitedUserCall(use_cache, username, u, reset) EXCEPT
                          !.raised = TRUE,
                          !.exception = Some(RateLimited(reset))]))
     /\ UNCHANGED source

\* Repository.get_thread(submission_id) in which request number `failing` is
\* answered with 429
get_thread_rate_limited(use_cache, submission_id, failing, reset) ==
  LET o == ThreadRaises(use_cache, submission_id, failing, thread_cache_status)
  IN /\ use_cache \in Syncing
     /\ failing \in 1..RequestsOfThread(use_cache, submission_id)
     /\ Return([o EXCEPT !.last.http_429 = Some(reset),
                         !.last.exception = Some(RateLimited(reset))])
     /\ UNCHANGED source

NextRateLimited ==
  \/ \E username \in Usernames : get_user_contributions("DEFAULT", username)
  \/ \E submission_id \in SubmissionIds : get_thread("DEFAULT", submission_id)
  \/ \E use_cache \in Syncing, username \in Usernames, failing \in Requests,
        reset \in ResetHeaders :
       get_user_contributions_rate_limited(use_cache, username, failing, reset)
  \/ \E use_cache \in Syncing, submission_id \in SubmissionIds,
        failing \in Requests, reset \in ResetHeaders :
       get_thread_rate_limited(use_cache, submission_id, failing, reset)
  \/ \E id \in SubmissionIds : SubmissionAdded(id)
  \/ \E id \in CommentIds : CommentAdded(id)

SpecRateLimited == Init /\ [][NextRateLimited]_vars

\* ---------------------------------------- a comment of another thread
\* get_thread in every mode while the platform grows, with an API that can
\* answer the request for a thread with a comment declaring another one.
NextMisfiled ==
  \/ \E use_cache \in CacheConfig, submission_id \in SubmissionIds :
       get_thread(use_cache, submission_id)
  \/ \E id \in SubmissionIds : SubmissionAdded(id)
  \/ \E id \in CommentIds \cup MisfiledIds : CommentAdded(id)

SpecMisfiled == Init /\ [][NextMisfiled]_vars

\* ------------------------------------------- one page stream, page by page
\* A stream_* generator of the provider, one request at a time, over the items
\* of the API that match its params (author or link_id).

\* Bounds: the items the API can hold for one stream, and their created_utc
MaxItems == 3
MaxTime == 3

\* What the API can hold: items with distinct ids, several of which may
\* share a created_utc
Holdings ==
  UNION {{{[id |-> d, created_utc |-> f[d]] : d \in D} : f \in [D -> 1..MaxTime]}
         : D \in SUBSET (1..MaxItems)}

\* The answers api_request(endpoint, params).get('data', []) can give: at most
\* `size` of the held items with created_utc <= before (when given), newest
\* first; the order among items of one created_utc is the API's choice
ApiAnswers(held, before) ==
  LET matching == {x \in held : before = None \/ x.created_utc <= before[1]}
      n == IF Cardinality(matching) < BatchSize THEN Cardinality(matching)
           ELSE BatchSize
  IN {current \in [1..n -> matching] :
        /\ \A j, k \in 1..n :
             j < k => /\ current[j] # current[k]
                      /\ current[j].created_utc >= current[k].created_utc
        /\ \A x \in matching \ Range(current) :
             \A k \in 1..n : x.created_utc <= current[k].created_utc}

\* A stream that asks for the page of its last item again
NextBefore_SameSecond(current) ==
  Some(current[Len(current)].created_utc)

\* params["before"] = int(current[-1]["created_utc"]) - 1
NextBefore(current) ==
  Some(current[Len(current)].created_utc - 1)

\* The requests one stream is followed for: one more than the API can hold
MaxRequests == MaxItems + 1

\* stream_*(...) is called: params without "before", count = 0
StreamOpened ==
  /\ pager = NoStream
  /\ \E held \in Holdings :
       pager' = [state |-> "open", held |-> held, before |-> None,
                 yielded |-> <<>>, requests |-> 0]
  /\ UNCHANGED <<source, store, last, row_tables, calls, flag_fetch, tree>>

\* One turn of `while True`: the request; break on an empty page, else set
\* params["before"] and yield the page
PageRequested ==
  /\ pager.state = "open"
  /\ pager.requests < MaxRequests
  /\ \E current \in ApiAnswers(pager.held, pager.before) :
       pager' = IF current = <<>>
                THEN [pager EXCEPT !.state = "done", !.requests = @ + 1]
                ELSE [pager EXCEPT !.before = NextBefore(current),
                                   !.yielded = @ \o current,
                                   !.requests = @ + 1]
  /\ UNCHANGED <<source, store, last, row_tables, calls, flag_fetch, tree>>

NextStream ==
  \/ StreamOpened
  \/ PageRequested

SpecStream == Init /\ [][NextStream]_vars

\* The consumer of the generator keeps pulling pages
SpecStreamRuns == SpecStream /\ WF_vars(PageRequested)

\* ------------------------------------------------- the thread as a tree
\* ThreadToText._convert_thread_to_document(submission, comments) on what a
\* get_thread call in DEFAULT mode returned, while the platform grows.

\* The Comment objects of a list of ids, with their parent_id
CommentObjects(list) ==
  [k \in 1..Len(list) |->
     [id |-> list[k], parent_id |-> PyStr(CommentData[list[k]].parent_id)]]

\* comments_tree = order_comments(submission.id, comments), with the thread
\* the last call returned
convert_thread_to_document ==
  /\ DefaultThreadCall
  /\ order_comments(last.arg, CommentObjects(last.comments))

NextDocuments ==
  \/ NextGrowing
  \/ convert_thread_to_document

SpecDocuments == Init /\ [][NextDocuments]_vars

\* C1: in DEFAULT mode, when thread T has no status row (or one that is not
\* complete), get_thread(T) streams T's comments with no stop cursor, whatever
\* is cached, and returns every comment the source streams for T.
C1_FullFetchReturnsWholeStream ==
  FullFetchCall =>
    /\ last.stop_comments = None
    /\ Logged("source.stream_submission_comments")
    /\ Range(Flatten(last.pages_comments)) \subseteq Range(last.comments)

\* C1, the regression scenario: c1, c2, c3 in the source, only c3 cached, no
\* status row; the call has returned all three.
C1_Witness ==
  /\ FullFetchCall
  /\ last.status = None
  /\ last.cached_comments = <<"c3">>
  /\ Range(Flatten(last.pages_comments)) = {"c1", "c2", "c3"}
  /\ Range(last.comments) = {"c1", "c2", "c3"}

\* A status row of T exists and says the thread's history is complete
Complete(table, T) == T \in DOMAIN table /\ table[T].is_history_complete

\* C2: once the stored status of a submission says is_history_complete, no
\* call in any mode leaves it false or absent.
C2_CompleteIsStable ==
  [][\A T \in SubmissionIds :
       Complete(thread_cache_status, T) => Complete(thread_cache_status', T)]_vars

\* C2: a call has rewritten the status row of a thread that was complete
C2_Witness ==
  /\ last.op = "get_thread"
  /\ Complete(last.before.thread_cache_status, last.arg)
  /\ Logged("cache.upsert_thread_cache_status")
  /\ Complete(thread_cache_status, last.arg)

\* C3: get_user_contributions, in every mode, neither reads nor writes a
\* thread status row: the table is the same after the call as before it.
C3_UserSyncLeavesThreadStatus ==
  last.op = "get_user_contributions" =>
    /\ thread_cache_status = last.before.thread_cache_status
    /\ ~Logged("cache.get_thread_cache_status")
    /\ ~Logged("cache.upsert_thread_cache_status")

\* C3: a user-level sync has stored comments of a thread that has no status
\* row, and the thread still has none
C3_Witness ==
  /\ last.op = "get_user_contributions"
  /\ last.mode \in {"DEFAULT", "FULL_SAVE"}
  /\ Logged("cache.add_comments")
  /\ \E c \in Range(last.new_comments) :
       CommentData[c].link_id \notin DOMAIN thread_cache_status

\* C4: get_thread, in every mode, neither reads nor writes a user cursor
\* row: the table is the same after the call as before it.
C4_ThreadSyncLeavesUserCursor ==
  last.op = "get_thread" =>
    /\ user_cache_status = last.before.user_cache_status
    /\ ~Logged("cache.get_user_cache_status")
    /\ ~Logged("cache.upsert_user_cache_status")

\* C4: a thread sync has stored a comment newer than its author's comment
\* cursor, and the cursor row is as it was
C4_Witness ==
  /\ last.op = "get_thread"
  /\ Logged("cache.add_comments")
  /\ \E c \in Range(last.new_comments) :
       /\ CommentData[c].author \in DOMAIN user_cache_status
       /\ LET cursor == user_cache_status[CommentData[c].author].newest_comment_cursor
          IN cursor # None /\ cursor[1] < created_utc(c)

\* The largest created_utc among the items of a non-empty list
LargestCreatedUtc(list) ==
  CHOOSE t \in {created_utc(list[k]) : k \in 1..Len(list)} :
    \A k \in 1..Len(list) : created_utc(list[k]) <= t

\* C5: after a DEFAULT-mode get_thread(T) that took the full-fetch branch,
\* T's status row says is_history_complete, its newest_item_cursor is the
\* largest created_utc among the fetched comments (unset when none was
\* fetched), and the row was written exactly once in the call.
C5_FullFetchWritesStatusOnce ==
  FullFetchCall =>
    /\ Complete(thread_cache_status, last.arg)
    /\ thread_cache_status[last.arg].newest_item_cursor =
         IF last.new_comments = <<>> THEN None
         ELSE Some(LargestCreatedUtc(last.new_comments))
    /\ TimesLogged("cache.upsert_thread_cache_status") = 1

\* C5: a full fetch that brought several comments has written the row
C5_Witness ==
  /\ FullFetchCall
  /\ Len(last.new_comments) >= 2
  /\ thread_cache_status[last.arg].newest_item_cursor = Some(3)

\* C5: a full fetch of a thread without comments has written the row
C5_WitnessEmpty ==
  /\ FullFetchCall
  /\ last.new_comments = <<>>
  /\ thread_cache_status[last.arg].newest_item_cursor = None

\* C6: in DEFAULT mode, when T's status row is complete, get_thread(T) stops
\* at the first streamed comment whose created_utc is at or below
\* newest_item_cursor, stores what it fetched, writes the status row only when
\* something was fetched (then with the newest fetched timestamp, complete)
\* and else leaves the table as it was, and returns the fetched comments
\* followed by the cached ones.
C6_IncrementalFetch ==
  IncrementalCall =>
    /\ last.new_comments =
         BeforeStop(Flatten(last.pages_comments), last.status[1].newest_item_cursor)
    /\ Range(last.new_comments) \subseteq comments
    /\ IF last.new_comments # <<>>
       THEN /\ thread_cache_status[last.arg] =
                 [newest_item_cursor |-> Some(created_utc(last.new_comments[1])),
                  is_history_complete |-> TRUE]
            /\ TimesLogged("cache.upsert_thread_cache_status") = 1
       ELSE /\ thread_cache_status = last.before.thread_cache_status
            /\ ~Logged("cache.upsert_thread_cache_status")
    /\ Range(last.cached_comments) =
         {c \in last.before.comments : CommentData[c].link_id = last.arg}
    /\ last.comments = last.new_comments \o last.cached_comments

\* C6: an incremental fetch has stopped in the middle of the stream and
\* returned one new comment in front of the cached one
C6_Witness ==
  /\ IncrementalCall
  /\ last.status[1].newest_item_cursor = Some(2)
  /\ Flatten(last.pages_comments) = <<"c3", "c2", "c1">>
  /\ last.comments = <<"c3", "c2">>
  /\ thread_cache_status[last.arg].newest_item_cursor = Some(3)

\* The fetches of submissions and of comments the call made agree with the
\* stop rule
FetchedByStopRule ==
  ~last.raised =>
  /\ (Logged("source.stream_user_comments") \/ Logged("source.stream_submission_comments")) =>
       /\ last.new_comments = BeforeStop(Flatten(last.pages_comments), last.stop_comments)
       /\ last.requested_comments = PagesNeeded(last.pages_comments, last.stop_comments)
  /\ Logged("source.stream_user_submissions") =>
       /\ last.new_submissions =
            BeforeStop(Flatten(last.pages_submissions), last.stop_submissions)
       /\ last.requested_submissions =
            PagesNeeded(last.pages_submissions, last.stop_submissions)

\* C7: for a stream of pages in descending timestamp order and a stop cursor
\* t, the fetch helpers return exactly the items before the first item whose
\* created_utc is at or below t, in stream order, and pull no page after the
\* one that holds that item; with no stop cursor they return every item of
\* every page.
C7_FetchStopsAtCursor == FetchedByStopRule

\* C7: a fetch has stopped on the first page of a two-page stream, at an item
\* below a cursor that is the timestamp of no streamed item
C7_Witness ==
  /\ last.op = "get_thread"
  /\ last.stop_comments = Some(2)
  /\ last.pages_comments = <<<<"c3", "c1">>>>
  /\ last.new_comments = <<"c3">>

\* C7: a fetch has stopped at the cursor on the first of two pages and has
\* not pulled the second
C7_WitnessPages ==
  /\ last.stop_comments = Some(2)
  /\ Len(last.pages_comments) = 2
  /\ last.new_comments = <<"c3">>
  /\ last.requested_comments = 1

\* C8: across completed get_thread calls in DEFAULT or FULL_SAVE mode, the
\* stored newest_item_cursor of a submission never decreases and is never
\* reset from a timestamp to unset.
C8_ThreadCursorMonotone ==
  (last.op = "get_thread" /\ last.mode \in {"DEFAULT", "FULL_SAVE"}) =>
    \A T \in DOMAIN last.before.thread_cache_status :
      LET was == last.before.thread_cache_status[T].newest_item_cursor
      IN was # None =>
           /\ T \in DOMAIN thread_cache_status
           /\ thread_cache_status[T].newest_item_cursor # None
           /\ thread_cache_status[T].newest_item_cursor[1] >= was[1]

\* C9: across completed get_user_contributions calls in DEFAULT or FULL_SAVE
\* mode, the stored newest_submission_cursor and newest_comment_cursor of a
\* username never decrease and are never reset from a timestamp to unset.
C9_UserCursorsMonotone ==
  (last.op = "get_user_contributions" /\ last.mode \in {"DEFAULT", "FULL_SAVE"}) =>
    \A u \in DOMAIN last.before.user_cache_status :
      \A field \in {"newest_submission_cursor", "newest_comment_cursor"} :
        LET was == last.before.user_cache_status[u][field]
        IN was # None =>
             /\ u \in DOMAIN user_cache_status
             /\ user_cache_status[u][field] # None
             /\ user_cache_status[u][field][1] >= was[1]

\* C10: the comment list get_thread returns is the set union of the fetched
\* and the cached comments: no comment id occurs in it twice.
C10_ThreadResultHasNoDuplicates ==
  (last.op = "get_thread" /\ last.found) => NoDuplicates(last.comments)

\* A DEFAULT-mode get_user_contributions
DefaultUserCall ==
  last.op = "get_user_contributions" /\ last.mode = "DEFAULT"

\* The cursor `field` of user u in a status table, None when u has no row
CursorOf(table, u, field) ==
  IF u \in DOMAIN table THEN table[u][field] ELSE None

\* The cursor a sync leaves for a kind of item: the largest created_utc among
\* the fetched items, or the cursor as it was when none was fetched
AdvancedCursor(fetched, was) ==
  IF fetched # <<>> THEN Some(LargestCreatedUtc(fetched)) ELSE was

\* C11: after a DEFAULT-mode get_user_contributions(u), u has a cursor row,
\* and each of its two cursors, independently of the other, is the timestamp
\* of the newest item of its kind fetched in the call, or what it was before
\* the call when no item of that kind was fetched (unset when there was no
\* row).
C11_UserCursorsAdvance ==
  DefaultUserCall =>
    /\ last.arg \in DOMAIN user_cache_status
    /\ user_cache_status[last.arg].newest_submission_cursor =
         AdvancedCursor(last.new_submissions,
                        CursorOf(last.before.user_cache_status, last.arg,
                                 "newest_submission_cursor"))
    /\ user_cache_status[last.arg].newest_comment_cursor =
         AdvancedCursor(last.new_comments,
                        CursorOf(last.before.user_cache_status, last.arg,
                                 "newest_comment_cursor"))
    /\ TimesLogged("cache.upsert_user_cache_status") = 1

\* C11: a sync of bob has fetched a comment and no submission: the comment
\* cursor has moved, the submission cursor is what it was
C11_Witness ==
  /\ DefaultUserCall
  /\ last.arg = "bob"
  /\ last.new_submissions = <<>>
  /\ last.new_comments = <<"c2">>
  /\ CursorOf(last.before.user_cache_status, "bob", "newest_submission_cursor") = Some(1)
  /\ CursorOf(last.before.user_cache_status, "bob", "newest_comment_cursor") = None
  /\ user_cache_status["bob"] =
       [newest_submission_cursor |-> Some(1), newest_comment_cursor |-> Some(2)]

\* C11: a first sync that fetched nothing has written a row with both
\* cursors unset
C11_WitnessFirstEmpty ==
  /\ DefaultUserCall
  /\ last.arg \notin DOMAIN last.before.user_cache_status
  /\ last.new_submissions = <<>> /\ last.new_comments = <<>>
  /\ user_cache_status[last.arg] =
       [newest_submission_cursor |-> None, newest_comment_cursor |-> None]

\* C12: in DEFAULT mode get_user_contributions(u) returns, for submissions
\* and for comments separately, the fetched items in stream order followed by
\* the rows that were stored for u before the fetch; every row stored for u
\* and every fetched item is in the result.
C12_UserResultIsNewThenCached ==
  DefaultUserCall =>
    /\ last.new_submissions =
         BeforeStop(Flatten(last.pages_submissions), last.stop_submissions)
    /\ last.new_comments =
         BeforeStop(Flatten(last.pages_comments), last.stop_comments)
    /\ Range(last.cached_submissions) =
         {s \in last.before.submissions : SubmissionData[s].author = last.arg}
    /\ Range(last.cached_comments) =
         {c \in last.before.comments : CommentData[c].author = last.arg}
    /\ last.submissions = last.new_submissions \o last.cached_submissions
    /\ last.comments = last.new_comments \o last.cached_comments

\* C12: a sync of alice has fetched c3 and returned it in front of the
\* stored c1
C12_Witness ==
  /\ DefaultUserCall
  /\ last.arg = "alice"
  /\ last.before.comments = {"c1"}
  /\ last.new_comments = <<"c3">>
  /\ last.comments = <<"c3", "c1">>

\* C13: the lists get_user_contributions returns are set unions: no
\* submission id and no comment id occurs twice, also when an item of the
\* user was stored by an earlier get_thread before the user's first sync.
C13_UserResultHasNoDuplicates ==
  last.op = "get_user_contributions" =>
    /\ NoDuplicates(last.submissions)
    /\ NoDuplicates(last.comments)

\* The position of the first entry e of the call's log, 0 when it has none
Position(e) ==
  IF Logged(e) THEN Least({k \in 1..Len(last.log) : last.log[k] = e}) ELSE 0

\* The store is as the call found it
StoreAsBefore == Before = last.before

\* The stored comments of thread T in a table of comments
CommentsOfThread(table, T) == {c \in table : CommentData[c].link_id = T}

\* C14 as stated: in every mode get_thread(id) returns None only if the
\* submission is neither in the store nor in the source; if either holds it,
\* the call returns the submission with its comments.
C14_NotFoundOnlyIfNowhere ==
  (last.op = "get_thread" /\ ~last.raised) =>
    (last.found <=>
       (last.arg \in last.before.submissions \/ last.arg \in src_submissions))

\* The submission is held by a place the mode of the call looks in: the
\* store then the source (DEFAULT), the source (NO_CACHE, FULL_SAVE), the
\* store (CACHE_ONLY)
Resolvable ==
  CASE last.mode = "DEFAULT" ->
         last.arg \in last.before.submissions \/ last.arg \in src_submissions
    [] last.mode \in {"NO_CACHE", "FULL_SAVE"} -> last.arg \in src_submissions
    [] last.mode = "CACHE_ONLY" -> last.arg \in last.before.submissions

\* C14, amended: get_thread(id) returns None exactly when no place its mode
\* looks in holds the submission: store and source in DEFAULT mode, the
\* source alone in NO_CACHE and FULL_SAVE mode, the store alone in CACHE_ONLY
\* mode.  Otherwise it returns the submission with comments of that thread.
C14_NotFoundIffUnresolvedByMode ==
  (last.op = "get_thread" /\ ~last.raised) =>
    /\ last.found <=> Resolvable
    /\ last.found =>
         /\ last.submissions = <<last.arg>>
         /\ \A c \in Range(last.comments) : CommentData[c].link_id = last.arg
    /\ ~last.found => (last.submissions = <<>> /\ last.comments = <<>>)

\* C14: a DEFAULT-mode call has missed the store, got the submission from the
\* source and returned it with its comments
C14_Witness ==
  /\ DefaultThreadCall
  /\ last.arg \notin last.before.submissions
  /\ last.arg \in src_submissions
  /\ last.comments # <<>>

\* C14: a CACHE_ONLY call has returned None for a submission the source holds
C14_WitnessCacheOnly ==
  /\ last.op = "get_thread" /\ last.mode = "CACHE_ONLY"
  /\ ~last.found
  /\ last.arg \in src_submissions

\* C14: a FULL_SAVE call has returned None for a submission the store holds
C14_WitnessFullSave ==
  /\ last.op = "get_thread" /\ last.mode = "FULL_SAVE"
  /\ ~last.found /\ ~last.raised
  /\ last.arg \in last.before.submissions

\* C15: in DEFAULT mode get_thread(id) asks the store for the submission
\* first and the source's fetch_submission only when the store has none; a
\* submission got from the source is stored before the comment stream is
\* opened; when the source has none either, the call returns None.
C15_SubmissionResolvedCacheFirst ==
  (last.op = "get_thread" /\ last.mode = "DEFAULT" /\ ~last.raised) =>
    /\ Position("cache.get_submission") = 1
    /\ Logged("source.fetch_submission") <=> last.arg \notin last.before.submissions
    /\ TimesLogged("source.fetch_submission") <= 1
    /\ (last.arg \notin last.before.submissions /\ last.arg \in src_submissions) =>
         /\ last.found
         /\ last.arg \in submissions
         /\ Position("source.fetch_submission") < Position("cache.add_submissions")
         /\ Position("cache.add_submissions") < Position("source.stream_submission_comments")
    /\ (last.arg \notin last.before.submissions /\ last.arg \notin src_submissions) =>
         /\ ~last.found
         /\ ~Logged("source.stream_submission_comments")
         /\ StoreAsBefore

\* C15: a call has fetched the submission from the source, stored it and
\* then fetched comments
C15_Witness ==
  /\ DefaultThreadCall
  /\ Logged("source.fetch_submission")
  /\ last.arg \notin last.before.submissions
  /\ last.arg \in submissions
  /\ last.new_comments # <<>>

\* C15: a call has found the submission in the store and has not asked the
\* source for it
C15_WitnessHit ==
  /\ DefaultThreadCall
  /\ last.arg \in last.before.submissions
  /\ last.arg \notin src_submissions
  /\ ~Logged("source.fetch_submission")

\* C15: a call has found the submission nowhere and returned None
C15_WitnessNotFound ==
  /\ last.op = "get_thread" /\ last.mode = "DEFAULT"
  /\ ~last.found /\ ~last.raised
  /\ Logged("source.fetch_submission")
  /\ src_comments # {}

\* The calls of the store that read, and the calls of the source, as the log
\* names them
CacheReads ==
  { "cache.get_submission", "cache.get_submission_comments",
    "cache.get_users_submissions", "cache.get_users_comments",
    "cache.get_user_cache_status", "cache.get_thread_cache_status" }

SourceCalls ==
  { "source.fetch_submission", "source.stream_user_submissions",
    "source.stream_user_comments", "source.stream_submission_comments" }

\* C16: in NO_CACHE mode get_user_contributions and get_thread fetch
\* everything with no stop cursor and make no call of the store: the four
\* tables are as before the call, and the result is what the source streams,
\* whatever is stored.
C16_NoCacheLeavesStoreAlone ==
  (last.op # "none" /\ last.mode = "NO_CACHE" /\ ~last.raised) =>
    /\ StoreAsBefore
    /\ \A k \in 1..Len(last.log) : last.log[k] \in SourceCalls
    /\ last.stop_submissions = None /\ last.stop_comments = None
    /\ last.op = "get_user_contributions" =>
         /\ last.submissions = Flatten(stream_user_submissions(last.arg))
         /\ last.comments = Flatten(stream_user_comments(last.arg))
    /\ last.op = "get_thread" =>
         /\ last.found <=> last.arg \in src_submissions
         /\ last.found =>
              /\ last.submissions = <<last.arg>>
              /\ last.comments = Flatten(stream_submission_comments(last.arg))

\* C16: a NO_CACHE get_thread has returned the whole stream of a thread whose
\* stored status is complete with a cursor, and of which a comment is stored
C16_Witness ==
  /\ last.op = "get_thread" /\ last.mode = "NO_CACHE"
  /\ last.found
  /\ Complete(thread_cache_status, last.arg)
  /\ thread_cache_status[last.arg].newest_item_cursor = Some(3)
  /\ "c3" \in comments
  /\ last.comments = <<"c3", "c2", "c1">>

\* C16: a NO_CACHE get_user_contributions has returned the whole stream of a
\* user whose cursor is stored, and has stored nothing
C16_WitnessUser ==
  /\ last.op = "get_user_contributions" /\ last.mode = "NO_CACHE"
  /\ CursorOf(user_cache_status, last.arg, "newest_comment_cursor") = Some(1)
  /\ last.comments = <<"c3", "c1">>
  /\ "c3" \notin comments

\* C17: in CACHE_ONLY mode get_user_contributions and get_thread make no call
\* of the source and no write to the store; get_user_contributions returns
\* exactly the stored rows of the user (empty lists when it has none) and
\* get_thread returns None when the submission is not stored.
C17_CacheOnlyCallsNoSource ==
  (last.op # "none" /\ last.mode = "CACHE_ONLY") =>
    /\ StoreAsBefore
    /\ \A k \in 1..Len(last.log) : last.log[k] \in CacheReads
    /\ last.op = "get_user_contributions" =>
         /\ last.found
         /\ NoDuplicates(last.submissions) /\ NoDuplicates(last.comments)
         /\ Range(last.submissions) =
              {s \in submissions : SubmissionData[s].author = last.arg}
         /\ Range(last.comments) =
              {c \in comments : CommentData[c].author = last.arg}
    /\ last.op = "get_thread" =>
         /\ last.found <=> last.arg \in submissions
         /\ last.found =>
              /\ last.submissions = <<last.arg>>
              /\ NoDuplicates(last.comments)
              /\ Range(last.comments) = CommentsOfThread(comments, last.arg)

\* C17: a CACHE_ONLY get_user_contributions has returned the one stored
\* comment of a user of whom the source holds a newer one
C17_Witness ==
  /\ last.op = "get_user_contributions" /\ last.mode = "CACHE_ONLY"
  /\ last.arg = "alice"
  /\ last.comments = <<"c1">>
  /\ "c3" \in src_comments

\* C17: a CACHE_ONLY get_user_contributions has returned empty lists for a
\* user of whom nothing is stored and the source holds items
C17_WitnessEmpty ==
  /\ last.op = "get_user_contributions" /\ last.mode = "CACHE_ONLY"
  /\ last.arg = "bob"
  /\ last.submissions = <<>> /\ last.comments = <<>>
  /\ "T1" \in src_submissions /\ "c2" \in src_comments

C18_WitnessUser ==
  /\ last.op = "get_user_contributions" /\ last.mode = "FULL_SAVE"
  /\ CursorOf(last.before.user_cache_status, last.arg, "newest_comment_cursor") = Some(3)
  /\ last.new_comments = <<"c3", "c1">>
  /\ {"c1", "c3"} \subseteq comments

\* C19: writing a submission or a comment whose id is stored changes nothing:
\* after any sequence of add_submissions / add_comments calls every id that
\* was written has exactly one stored row, and the row has the content of
\* the first write of that id.
C19_OneRowPerIdWithFirstContent ==
  /\ \A table \in {submission_rows, comment_rows} :
       /\ \A j, k \in 1..Len(table) : table[j].id = table[k].id => j = k
       /\ \A k \in 1..Len(table) :
            /\ table[k].id \in DOMAIN written
            /\ table[k].raw_json = written[table[k].id].first
  /\ \A id \in DOMAIN written :
       IF id \in SubmissionIds THEN Stored(submission_rows, id)
       ELSE Stored(comment_rows, id)

\* C19: a comment and a submission have been written again with other
\* content, and their rows have the content of the first write
C19_Witness ==
  /\ \E k \in 1..Len(comment_rows) :
       /\ written[comment_rows[k].id].rewritten
       /\ comment_rows[k].raw_json = written[comment_rows[k].id].first
  /\ \E k \in 1..Len(submission_rows) :
       /\ written[submission_rows[k].id].rewritten
       /\ submission_rows[k].raw_json = written[submission_rows[k].id].first

\* A DEFAULT or FULL_SAVE get_thread that raised while it was streaming the
\* comments of the thread
RaisedInStream ==
  /\ last.op = "get_thread"
  /\ last.mode \in {"DEFAULT", "FULL_SAVE"}
  /\ last.raised
  /\ Logged("source.stream_submission_comments")

\* C20: when the source fails while a DEFAULT or FULL_SAVE get_thread(T) is
\* streaming comments, the call ends with the exception and without writing
\* a thread status row (T's is_history_complete is not set by the call), and
\* every row stored before the failure, by this call or before it, is still
\* stored.
C20_FailedStreamWritesNoStatus ==
  RaisedInStream =>
    /\ ~last.found
    /\ thread_cache_status = last.before.thread_cache_status
    /\ ~Logged("cache.upsert_thread_cache_status")
    /\ user_cache_status = last.before.user_cache_status
    /\ last.before.submissions \subseteq submissions
    /\ last.before.comments \subseteq comments
    /\ Logged("cache.add_submissions") => last.arg \in submissions

\* C20: a DEFAULT get_thread has fetched and stored the submission, pulled
\* the first page of comments and raised at the request of the second; the
\* submission is stored and the thread has no status row
C20_Witness ==
  /\ RaisedInStream
  /\ last.mode = "DEFAULT"
  /\ last.arg \notin last.before.submissions
  /\ last.arg \in submissions
  /\ Len(last.pages_comments) = 1
  /\ last.requested_comments = 2
  /\ last.arg \notin DOMAIN thread_cache_status

\* C20: a FULL_SAVE get_thread has raised in the stream of a thread whose
\* stored comments and status are as they were
C20_WitnessFullSave ==
  /\ RaisedInStream
  /\ last.mode = "FULL_SAVE"
  /\ CommentsOfThread(comments, last.arg) # {}
  /\ last.arg \in DOMAIN thread_cache_status

\* The items of the pages a raising call had received from the comment stream
\* when it raised
ReceivedBeforeFailure == Range(Flatten(last.pages_comments))

\* C21: during a sync each page obtained from the source is stored before
\* the next page is requested, so a sync that ends after k pages leaves the
\* items of those k pages stored.
C21_PagesStoredBeforeNextRequest ==
  RaisedInStream => ReceivedBeforeFailure \subseteq comments

\* The rows of a table that have that id
RowsWithId(table, id) == {k \in 1..Len(table) : table[k].id = id}

\* The call of caller p has returned a thread
Returned(p) == Call(p).pc = "done" /\ Call(p).submission # None

\* The call of caller p has raised
Raised(p) == Call(p).pc = "raised"

\* C22: when the get_thread calls of two callers run at the same time on one
\* thread and insert the same comment, the comments table has exactly one
\* row of that id, whatever the interleaving, and no call raises except
\* when its own request of the API has failed for the last time.
C22_ConcurrentInsertsCollapse ==
  /\ \A id \in CommentIds : Cardinality(RowsWithId(comment_rows, id)) <= 1
  /\ \A p \in Callers :
       /\ Returned(p) =>
            \A id \in Range(Call(p).new_comments) :
              Cardinality(RowsWithId(comment_rows, id)) = 1
       /\ Raised(p) => Call(p).attempt = stop_after_attempt

\* C22: both callers, in DEFAULT mode, fetched the same comment as new and have
\* returned; the row is the one caller A inserted
C22_Witness ==
  /\ Returned("A") /\ Returned("B")
  /\ Call("A").use_cache = "DEFAULT" /\ Call("B").use_cache = "DEFAULT"
  /\ \E id \in Range(Call("A").new_comments) \cap Range(Call("B").new_comments) :
       /\ id \in Call("A").inserted
       /\ id \notin Call("B").inserted
       /\ Cardinality(RowsWithId(comment_rows, id)) = 1

\* C23: whatever the interleaving of the steps of two syncs of the same
\* thread, no write of the status lowers the stored newest_item_cursor or
\* resets it to unset.
C23_NoWriteLowersCursor ==
  [][\A T \in DOMAIN thread_cache_status :
       thread_cache_status[T].newest_item_cursor # None =>
         /\ T \in DOMAIN thread_cache_status'
         /\ thread_cache_status'[T].newest_item_cursor # None
         /\ thread_cache_status'[T].newest_item_cursor[1]
              >= thread_cache_status[T].newest_item_cursor[1]]_vars

\* C28: in every state, also when a caller was stopped between two steps,
\* a thread whose is_history_complete is true has every comment of the full
\* fetch that set the flag in the comments table.
C28_CompleteOnlyAfterCommentsStored ==
  \A T \in DOMAIN thread_cache_status :
    thread_cache_status[T].is_history_complete =>
      /\ T \in DOMAIN flag_fetch
      /\ flag_fetch[T] \subseteq RowIds(comment_rows)

\* C28: one caller was stopped after it had inserted comments and before it wrote
\* the status; the other has set the flag after a fetch that had comments
C28_Witness ==
  /\ Complete(thread_cache_status, "T1")
  /\ flag_fetch["T1"] # {}
  /\ \E p \in Callers :
       /\ Call(p).pc = "stopped"
       /\ Call(p).inserted \cap CommentIds # {}
       /\ ~Call(p).wrote_status

\* C28: a call is stopped between add_comments and the write of the status: the
\* comments are stored and no status says the history is complete
C28_WitnessStopped ==
  /\ thread_cache_status = <<>>
  /\ \E p \in Callers :
       /\ Call(p).pc = "stopped"
       /\ Call(p).inserted \cap CommentIds # {}

\* C30 (as stated): a request is tried at most 3 times, and a call that
\* raised because the last attempt failed has persisted nothing and written
\* no status.
C30_RaisedCallPersistedNothing ==
  \A p \in Callers :
    /\ Call(p).attempt <= stop_after_attempt
    /\ Raised(p) =>
         /\ Call(p).attempt = stop_after_attempt
         /\ Call(p).inserted = {}
         /\ ~Call(p).wrote_status

\* C30 (amended): a request is tried at most 3 times, and a call that raised
\* because the last attempt failed has written no status and persisted no
\* comment; the one row it can have persisted is the submission that a
\* DEFAULT call fetched after a cache miss, before it opened the stream.
C30_RaisedCallWroteNoStatus ==
  \A p \in Callers :
    /\ Call(p).attempt <= stop_after_attempt
    /\ Raised(p) =>
         /\ Call(p).attempt = stop_after_attempt
         /\ ~Call(p).wrote_status
         /\ Call(p).inserted \subseteq {Call(p).submission_id}
         /\ Call(p).inserted # {} => Call(p).use_cache = "DEFAULT"

\* C30: a DEFAULT call raised in the stream after it had stored the submission
C30_Witness ==
  \E p \in Callers :
    /\ Raised(p)
    /\ Call(p).inserted = {"T1"}
    /\ comment_rows = <<>>
    /\ thread_cache_status = <<>>

\* C30: a FULL_SAVE call raised while the source held the thread and a comment
C30_WitnessFullSave ==
  \E p \in Callers :
    /\ Raised(p)
    /\ Call(p).use_cache = "FULL_SAVE"
    /\ "T1" \in src_submissions /\ src_comments # {}
    /\ submission_rows = <<>> /\ comment_rows = <<>>

\* The ids of the comments order_comments was called with
InputIds == {tree.comments[k].id : k \in 1..Len(tree.comments)}

\* The place of a comment in the list order_comments was called with
InputPosition(id) == CHOOSE k \in 1..Len(tree.comments) : tree.comments[k].id = id

\* The parent_id of a comment of that list
ParentId(id) == tree.comments[InputPosition(id)].parent_id

\* The comment's parent_id names a comment of the list, and not the submission
HasParentInList(id) ==
  /\ ParentId(id).type = "str"
  /\ ParentId(id).value # tree.submission_id
  /\ ParentId(id).value \in InputIds

\* The comment's node is in the list root; in the replies of the node of p
IsRoot(id) == id \in Range(tree.root)
IsReplyOf(id, p) == id \in Range(tree.replies[p])

\* C24: order_comments returns for every input, and places every comment by
\* the rules in their order: a parent_id that is None, empty or a number
\* makes it a root, so does the submission's id; the id of a comment of the
\* list makes it a reply of that comment's node and nothing else; any other
\* parent_id makes it a root.
C24_EveryCommentPlacedByTheRules ==
  /\ DOMAIN tree.replies = InputIds
  /\ \A id \in InputIds :
       IF HasParentInList(id)
       THEN /\ ~IsRoot(id)
            /\ \A p \in InputIds : IsReplyOf(id, p) <=> p = ParentId(id).value
       ELSE /\ IsRoot(id)
            /\ \A p \in InputIds : ~IsReplyOf(id, p)

\* C24: [c1(parent=S1), c4(parent="missing_id")] gives the roots [c1, c4], and c4
\* has no replies
C24_Witness ==
  /\ tree.comments = << [id |-> "c1", parent_id |-> PyStr("S1")],
                        [id |-> "c4", parent_id |-> PyStr("missing_id")] >>
  /\ tree.root = <<"c1", "c4">>
  /\ tree.replies["c4"] = <<>>

\* C24: a comment with a number and one with None as parent_id, both roots
C24_WitnessCorrupt ==
  /\ \E i, j \in InputIds :
       /\ ParentId(i) = PyInt(7) /\ ParentId(j) = PyNone
       /\ IsRoot(i) /\ IsRoot(j)

\* The ids of a list are in the order they have in the input
InInputOrder(list) ==
  \A i, j \in 1..Len(list) : i < j => InputPosition(list[i]) < InputPosition(list[j])

\* C25: the roots are in the order their comments have in the input, and so
\* are the replies of every node, also when a reply stands before its parent
\* in the input.
C25_RootsAndRepliesInInputOrder ==
  /\ InInputOrder(tree.root)
  /\ \A p \in DOMAIN tree.replies : InInputOrder(tree.replies[p])

\* C25: a node with two replies, the first of which stands before it in the input
C25_Witness ==
  \E p \in DOMAIN tree.replies :
    /\ Len(tree.replies[p]) = 2
    /\ InputPosition(tree.replies[p][1]) < InputPosition(p)
    /\ InputPosition(p) < InputPosition(tree.replies[p][2])

\* C25: two roots and a reply between them in the input
C25_WitnessRoots ==
  /\ Len(tree.root) = 2
  /\ \E id \in InputIds :
       /\ ~IsRoot(id)
       /\ InputPosition(tree.root[1]) < InputPosition(id)
       /\ InputPosition(id) < InputPosition(tree.root[2])

RECURSIVE NodesFrom(_, _)
\* The nodes that are reached from the nodes of `from` through replies
NodesFrom(from, seen) ==
  IF from \subseteq seen THEN seen
  ELSE NodesFrom(UNION {Range(tree.replies[id]) : id \in from}, seen \cup from)

\* The nodes of the forest order_comments returned
ForestNodes == NodesFrom(Range(tree.root), {})

\* How often the node of a comment stands in the list root or in a list of
\* replies
Places(id) ==
  Cardinality({k \in 1..Len(tree.root) : tree.root[k] = id})
  + Cardinality({pk \in {qk \in InputIds \X (1..Len(tree.comments)) :
                           qk[2] <= Len(tree.replies[qk[1]])} :
                   tree.replies[pk[1]][pk[2]] = id})

\* The input is a list of comments with distinct ids whose parent_id is the
\* submission's id or the id of another comment of the list
EveryParentKnown ==
  /\ tree.comments # <<>>
  /\ \A id \in InputIds :
       /\ ParentId(id).type = "str"
       /\ \/ ParentId(id).value = tree.submission_id
          \/ ParentId(id).value \in InputIds \ {id}

RECURSIVE LeadsToSubmission(_, _)
\* Following the parent_ids from a comment leads to the submission within
\* `steps` steps
LeadsToSubmission(id, steps) ==
  \/ ParentId(id).value = tree.submission_id
  \/ /\ steps > 0
     /\ ParentId(id).value \in InputIds
     /\ LeadsToSubmission(ParentId(id).value, steps - 1)

\* C26 (as stated): for comments with distinct ids whose parent_id is the
\* submission's id or the id of another comment of the list, every comment
\* is in exactly one node of the forest, and the nodes reached from the roots
\* are as many as the comments.
C26_ForestHoldsEveryCommentOnce ==
  EveryParentKnown =>
    /\ \A id \in InputIds : Places(id) = 1
    /\ Cardinality(ForestNodes) = Len(tree.comments)

\* C26 (amended): the same, for the lists in which, in addition, following
\* the parent_ids from any comment leads to the submission.
C26_ForestOfAThreadHoldsEveryCommentOnce ==
  (/\ EveryParentKnown
   /\ \A id \in InputIds : LeadsToSubmission(id, Len(tree.comments))) =>
    /\ \A id \in InputIds : Places(id) = 1
    /\ Cardinality(ForestNodes) = Len(tree.comments)

\* C26: [c1(parent=S1), c2(parent=c1), c3(parent=c1)] gives the root c1 with the
\* replies [c2, c3], which have none
C26_Witness ==
  /\ tree.comments = << [id |-> "c1", parent_id |-> PyStr("S1")],
                        [id |-> "c2", parent_id |-> PyStr("c1")],
                        [id |-> "c3", parent_id |-> PyStr("c1")] >>
  /\ tree.root = <<"c1">>
  /\ tree.replies["c1"] = <<"c2", "c3">>
  /\ tree.replies["c2"] = <<>> /\ tree.replies["c3"] = <<>>
  /\ ForestNodes = {"c1", "c2", "c3"}

\* C26: a chain given leaf first: [c3(parent=c2), c2(parent=c1), c1(parent=S1)]
C26_WitnessChain ==
  /\ Len(tree.comments) = 3
  /\ EveryParentKnown
  /\ \E a, b, c \in InputIds :
       /\ tree.root = <<a>>
       /\ tree.replies[a] = <<b>> /\ tree.replies[b] = <<c>>
       /\ InputPosition(c) < InputPosition(b) /\ InputPosition(b) < InputPosition(a)

\* C27: whatever default-mode calls of get_user_contributions and get_thread
\* were made while comments were added to the source, also comments with the
\* created_utc of a stored one, a default-mode get_thread(T) returns every
\* comment the source holds for T when it is called.
C27_ThreadReturnsAllSourceComments ==
  (DefaultThreadCall /\ ~last.raised) =>
    {c \in src_comments : CommentData[c].link_id = last.arg}
      \subseteq Range(last.comments)

\* C29: whatever calls are made, in whatever mode, no stored submission, no
\* stored comment, no row of a user's cursors and no row of a thread's status
\* is ever removed (the content of a stored submission or comment is what
\* C19 is about: the tables are written by add_submissions and add_comments
\* only).
C29_NothingStoredIsRemoved ==
  [][/\ submissions \subseteq submissions'
     /\ comments \subseteq comments'
     /\ DOMAIN user_cache_status \subseteq DOMAIN user_cache_status'
     /\ DOMAIN thread_cache_status \subseteq DOMAIN thread_cache_status']_vars

\* C29: a FULL_SAVE get_thread found comments and a status row of the thread in
\* the store, added a comment and wrote another status; what was stored is
\* still there
C29_Witness ==
  /\ last.op = "get_thread" /\ last.mode = "FULL_SAVE" /\ last.found
  /\ last.before.comments # {}
  /\ last.before.comments \subseteq comments
  /\ comments # last.before.comments
  /\ last.arg \in DOMAIN last.before.thread_cache_status
  /\ thread_cache_status[last.arg] # last.before.thread_cache_status[last.arg]
  /\ DOMAIN user_cache_status # {}

\* C36: a get_thread call that returns None has left the store as it found
\* it, in every mode: no submission, no comment and no status row was
\* written, also in FULL_SAVE mode, where the comments are streamed before the
\* call looks whether the submission was found.
C36_NotFoundLeavesStoreAlone ==
  (last.op = "get_thread" /\ ~last.found /\ ~last.raised) =>
    /\ StoreAsBefore
    /\ \A e \in {"cache.add_submissions", "cache.add_comments",
                 "cache.upsert_thread_cache_status"} : ~Logged(e)

\* C36: a FULL_SAVE call streamed comments the store did not hold, found no
\* submission and returned None
C36_Witness ==
  /\ last.op = "get_thread" /\ last.mode = "FULL_SAVE"
  /\ ~last.found /\ ~last.raised
  /\ last.new_comments # <<>>
  /\ ~(Range(last.new_comments) \subseteq last.before.comments)

\* C36: a DEFAULT call missed the store, was answered None by the source and
\* returned None while the source held comments of the thread
C36_WitnessDefault ==
  /\ last.op = "get_thread" /\ last.mode = "DEFAULT"
  /\ ~last.found /\ ~last.raised
  /\ \E c \in src_comments : CommentData[c].link_id = last.arg

\* C35: after default-mode get_user_contributions(u) calls on a source that
\* only gains items of u, every submission and comment the source streams
\* for u is stored and is in the result of the latest call, also an item
\* whose created_utc is that of the stored cursor.
C35_UserResultHasAllSourceItems ==
  (DefaultUserCall /\ ~last.raised) =>
    LET theirs == {s \in src_submissions : SubmissionData[s].author = last.arg}
                    \cup {c \in src_comments : CommentData[c].author = last.arg}
    IN /\ theirs \subseteq submissions \cup comments
       /\ theirs \subseteq Range(last.submissions) \cup Range(last.comments)

\* The nodes below the node of a comment
NodesBelow(id) == NodesFrom(Range(tree.replies[id]), {})

\* C37: for every list of comments with distinct ids, also one in which a
\* comment's parent_id is its own id or the parent_ids form a cycle, every
\* comment of the list is reached from the roots order_comments returns, and
\* no node of the forest is below itself.
C37_EveryCommentReachedAndNoCycle ==
  /\ InputIds \subseteq ForestNodes
  /\ \A id \in InputIds : id \notin NodesBelow(id)

\* C38: when order_comments is applied to the list a default-mode get_thread
\* returned, every comment id of the list stands in exactly one place of the
\* forest, also when the list holds a comment as a fetched and as a cached
\* entry.
C38_EveryIdInOnePlace ==
  \A id \in InputIds : Places(id) = 1

\* C33: a page stream that has ended has yielded every item the API holds
\* exactly once, newest first (non-increasing created_utc), also when items
\* of one created_utc lie on both sides of a page boundary.
C33_StreamYieldsEveryItemOnce ==
  pager.state = "done" =>
    /\ Range(pager.yielded) = pager.held
    /\ NoDuplicates(pager.yielded)
    /\ \A j, k \in 1..Len(pager.yielded) :
         j < k => pager.yielded[j].created_utc >= pager.yielded[k].created_utc

\* C34: a stream over finitely many items ends: while its consumer keeps
\* pulling, an open stream reaches its first empty page.
C34_StreamEnds ==
  (pager.state = "open") ~> (pager.state = "done")

\* C34: a stream that ended at its third request, after two non-empty pages
\* with different bounds
C34_Witness ==
  /\ pager.state = "done"
  /\ pager.requests = 3
  /\ Len(pager.yielded) > BatchSize

C31_WitnessThread ==
  /\ last.op = "get_thread" /\ last.http_429 = Some(None)
  /\ last.requested_comments > 1

\* C32: every comment in the list a get_thread call returns declares the
\* thread that was asked for; a comment the stream delivers with another
\* thread id is left out.
C32_ResultDeclaresThread ==
  (last.op = "get_thread" /\ last.found /\ ~last.raised) =>
    \A k \in 1..Len(last.comments) :
      CommentData[last.comments[k]].link_id = last.arg

====
